---- MODULE Spec2Model ----
(***************************************************************************)
(* Operational order workflow of barplas-bizflow: the pedidos and          *)
(* pedido_items tables with their CHECK constraints and the item trigger,  *)
(* the useOrderOperations hook, and the screens that read and write them.  *)
(***************************************************************************)
EXTENDS Integers, FiniteSets, Sequences, TLC

\* ---------------------------------------------------------------- bounds
NumOrders == 2
NumItems == 3
MaxOps == 2
NumProducts == 2
NumClientes == 2
NumComerciales == 2
NumNames == 11
MaxCantidad == 2
MaxSeq == 10000
MaxInserts == 2
NumDays == 2
MaxAuthEvents == 3
MaxReloads == 1
MaxTyped == 4
MaxSubmits == 3
MaxHandlers == 1
MaxStatements == 3

Orders == 1..NumOrders
Items == 1..NumItems
Products == 1..NumProducts
Clientes == 1..NumClientes
Comerciales == 1..NumComerciales

\* pedido_items.pedido_id: the order an item row belongs to.
pedido_id(i) == ((i - 1) % NumOrders) + 1

ItemsOf(o) == {i \in Items : pedido_id(i) = o}

NULL == "NULL"

\* ------------------------------------------------- database vocabulary
\* pedidos_estado_workflow_check
PedidoEstados ==
    {"recibido", "revision", "confirmado_parcial", "preparacion",
     "enviado", "entregado", "cancelado"}

\* pedido_items_estado_check
ItemEstados ==
    {"pendiente", "confirmado", "no_confirmado", "sin_stock",
     "preparando", "enviado"}

\* ORDER_STATUS_CONFIG of OperationalOrderManager: estado -> progress
ORDER_STATUS_CONFIG ==
    [s \in PedidoEstados |->
        CASE s = "recibido" -> 10
          [] s = "revision" -> 25
          [] s = "confirmado_parcial" -> 50
          [] s = "preparacion" -> 75
          [] s = "enviado" -> 90
          [] s = "entregado" -> 100
          [] s = "cancelado" -> 0]

\* type OrderStatus of OrderTimeline
OrderStatus ==
    {"pendiente", "confirmado", "en_proceso", "enviado", "entregado", "cancelado"}

\* ORDER_STATUSES of OrderTimeline: estado -> progress
ORDER_STATUSES ==
    [s \in OrderStatus |->
        CASE s = "pendiente" -> 0
          [] s = "confirmado" -> 25
          [] s = "en_proceso" -> 50
          [] s = "enviado" -> 75
          [] s = "entregado" -> 100
          [] s = "cancelado" -> 0]

\* statusFlow of OrderTimeline.getNextStatus (null is NULL)
statusFlow ==
    [s \in OrderStatus |->
        CASE s = "pendiente" -> "confirmado"
          [] s = "confirmado" -> "en_proceso"
          [] s = "en_proceso" -> "enviado"
          [] s = "enviado" -> "entregado"
          [] s = "entregado" -> NULL
          [] s = "cancelado" -> NULL]

\* getNextStatus: a key missing from statusFlow yields undefined, which the
\* caller treats like null (no button).
getNextStatus(currentStatus) ==
    IF currentStatus \in DOMAIN statusFlow THEN statusFlow[currentStatus] ELSE NULL

\* Values a caller can hand to the order writes: the workflow states and the
\* words of the other status vocabulary of the repository.
OrderWriteValues == PedidoEstados \cup OrderStatus

\* Values a caller can hand to updateItemStatus: the item states and one
\* word of the order vocabulary.
ItemWriteValues == ItemEstados \cup {"cancelado"}

Notes == {"nota"}
Dates == {"d1"}

\* ------------------------------------------------------------- state
VARIABLES
    pedidos,       \* table pedidos: order -> row
    pedido_items,  \* table pedido_items: item -> row
    tx,            \* item -> the UPDATE of that row in flight, if any
    cpo,           \* the confirmPartialOrder call in progress
    loading,       \* useOrderOperations.loading
    lastOp,        \* the handler that returned last, with its outcome
    nops,          \* handler invocations so far
    catalogos_clientes,  \* table catalogos_clientes of the client on screen: product -> row
    catalogoItems,       \* CatalogManager state: the rows loadData read last
    saving,              \* CatalogManager.saving
    clientes,      \* table clientes: client -> row
    cliente_id,    \* pedidos.cliente_id: order -> client
    user,          \* id of the signed-in commercial user (getUser()), 0 when signed out
    rows,          \* the rows the screen that loaded last holds
    reportOrders,  \* ReportGenerator: the orders handed to processReportData
    reportData,    \* ReportGenerator state reportData
    pedidos_seq,   \* sequence pedidos_seq: the value nextval returned last
    today,         \* the day NOW() falls on
    numeros,       \* the orders inserted: the nextval each got and its numero_pedido
    uiOrders,          \* OperationalOrderManager state orders: order -> the estado loaded, or NULL
    ordersReq,         \* a loadOrders request is awaiting its response
    selectedOrder,     \* state selectedOrder (id 0: null)
    orderItems,        \* state orderItems: the ids of the items loaded
    selectedItems,     \* state selectedItems: item id -> confirmed
    itemLoads,         \* order ids of the loadOrderItems requests awaiting a response
    uiDeliveryDate,    \* state deliveryDate ("" when empty)
    showConfirmDialog, \* state showConfirmDialog
    lastHandler,       \* the handler of the component that ran or returned last
    item_rows,     \* the ids of the rows of pedido_items that exist
    updated_at,    \* pedidos.updated_at: order -> the time of the write, 0 at creation
    clock,         \* NOW(): the statements run so far
    lastStmt,      \* the statement on pedido_items that ran last
    estado_by,     \* order -> what wrote pedidos.estado last: "default", "trigger" or "direct"
    comerciales,   \* table comerciales: user id -> role, "none" without a row
    srvSession,    \* the session supabase.auth holds: its user id, 0 when there is none
    sessionCheck,  \* the getSession() of the mount effect has not resolved yet
    roleFetches,   \* user id -> the fetchUserRole calls deferred or awaiting their response
    authUser,      \* useAuth state user (id 0: null) with the role fetched for it
    authLoading,   \* useAuth state loading
    isAdmin,       \* useAuth state isAdmin
    authEvents,    \* auth state change events delivered so far
    lastAuth,      \* the callback of useAuth that ran last
    mounted,       \* EnhancedClientManager is mounted
    effectIsAdmin, \* the isAdmin the [isAdmin] effect ran with last
    clientQueries, \* the filters (0: none) of the loadClients queries awaiting a response
    clients,       \* EnhancedClientManager state clients: the ids of the rows loaded
    lastQuery,     \* the loadClients query issued last: its filter and the session it ran under
    reloads,       \* loadClients calls after a save or a delete so far
    searchTerm,    \* GlobalSearch state searchTerm, a sequence of characters
    debounceTimer, \* the debounce timeout pending, with the term of its render (<<>>: none)
    searches,      \* the terms of the performSearch calls awaiting their responses
    results,       \* GlobalSearch state results: the ids of the clients listed
    lastSearch,    \* what GlobalSearch did last
    typed,         \* changes of searchTerm so far
    auth_users,    \* the ids of the users supabase.auth holds
    submit,        \* ComercialManager: call of handleSubmit -> where it stands
    cmLoading,     \* ComercialManager state loading
    dialogOpen,    \* ComercialManager state dialogOpen
    comercialesList,  \* ComercialManager state comerciales: the ids of the rows loaded
    comercialesReq,   \* loadComerciales requests awaiting a response
    cmToast        \* the toast ComercialManager showed last

orderVars == <<pedidos, pedido_items, tx, cpo, loading, nops>>
catalogVars == <<catalogos_clientes, catalogoItems, saving>>
queryVars == <<clientes, cliente_id, user, rows>>
reportVars == <<reportOrders, reportData>>
numeroVars == <<pedidos_seq, today, numeros>>
managerVars == <<uiOrders, ordersReq, selectedOrder, orderItems, selectedItems, itemLoads,
                 uiDeliveryDate, showConfirmDialog, lastHandler>>
triggerVars == <<item_rows, updated_at, clock, lastStmt>>
historyVars == <<estado_by>>
authVars == <<comerciales, srvSession, sessionCheck, roleFetches, authUser, authLoading,
              isAdmin, authEvents, lastAuth>>
clientVars == <<mounted, effectIsAdmin, clientQueries, clients, lastQuery, reloads>>
searchVars == <<searchTerm, debounceTimer, searches, results, lastSearch, typed>>
comercialVars == <<auth_users, submit, cmLoading, dialogOpen, comercialesList,
                   comercialesReq, cmToast>>
lastVars == <<clientVars, searchVars, comercialVars>>
moreVars == <<triggerVars, historyVars, authVars, lastVars>>
laterVars == <<reportVars, numeroVars, managerVars, moreVars>>
vars == <<orderVars, lastOp, catalogVars, queryVars, laterVars>>

NoTx == [phase |-> "none", src |-> NULL, new |-> NULL, fires |-> FALSE, result |-> NULL]
NoCpo == [pc |-> "idle", pedidoId |-> 0, sel |-> <<>>, notes |-> NULL, done |-> {},
          before |-> [item |-> NULL, pedido |-> NULL], fired |-> FALSE, clean |-> TRUE]
NoSnap == [item |-> NULL, pedido |-> NULL]
NoOp == [op |-> NULL, target |-> 0, arg |-> NULL, before |-> NoSnap, after |-> NoSnap,
         failed |-> "none", ret |-> FALSE, toast |-> <<>>,
         stage |-> NULL, fired |-> FALSE, clean |-> TRUE, changed |-> FALSE]

NoRows == [screen |-> NULL, pedidos |-> {}, clientes |-> {}]

\* useState<ReportData | null>(null)
NoReport == [generated |-> FALSE]

\* useState<OperationalOrder | null>(null)
NoOrder == [id |-> 0, estado |-> NULL, fecha_entrega_estimada |-> NULL]
NoHandler == [name |-> NULL, order |-> 0, items |-> {}, requested |-> FALSE,
              success |-> FALSE, uiEstado |-> NULL, dbEstado |-> NULL]

\* OperationalOrderManager as mounted: empty state, and the loadOrders of the
\* mount effect under way.
InitManager ==
    /\ uiOrders = [o \in Orders |-> NoOrder]
    /\ ordersReq = TRUE
    /\ selectedOrder = NoOrder
    /\ orderItems = {}
    /\ selectedItems = <<>>
    /\ itemLoads = {}
    /\ uiDeliveryDate = ""
    /\ showConfirmDialog = FALSE
    /\ lastHandler = NoHandler

NoStmt == [event |-> NULL, item |-> 0, old |-> NULL, new |-> NULL]

InitTrigger ==
    /\ item_rows = Items
    /\ updated_at = [o \in Orders |-> 0]
    /\ clock = 0
    /\ lastStmt = NoStmt

InitHistory == estado_by = [o \in Orders |-> "default"]

\* useState<UserWithRole | null>(null)
NoUser == [id |-> 0, role |-> NULL]
NoAuth == [step |-> NULL, session |-> 0]

\* useAuth as mounted in a signed-out browser whose users have no
\* comerciales row: loading true, the listener subscribed, getSession() pending.
InitAuth ==
    /\ comerciales = [u \in Comerciales |-> "none"]
    /\ srvSession = 0
    /\ sessionCheck = TRUE
    /\ roleFetches = [u \in Comerciales |-> 0]
    /\ authUser = NoUser
    /\ authLoading = TRUE
    /\ isAdmin = FALSE
    /\ authEvents = 0
    /\ lastAuth = NoAuth

NoQuery == [filter |-> 0, session |-> 0, issued |-> FALSE]

\* EnhancedClientManager before it is mounted
InitClients ==
    /\ mounted = FALSE
    /\ effectIsAdmin = FALSE
    /\ clientQueries = {}
    /\ clients = {}
    /\ lastQuery = NoQuery
    /\ reloads = 0

NoSearch == [step |-> NULL, term |-> <<>>, applied |-> FALSE]

\* GlobalSearch as mounted: useState(""), useState([]), and the timeout the
\* debounce effect set in the first render.
InitSearch ==
    /\ searchTerm = <<>>
    /\ debounceTimer = <<<<>>>>
    /\ searches = {}
    /\ results = {}
    /\ lastSearch = NoSearch
    /\ typed = 0

Calls == 1..MaxSubmits
NoSubmit == [pc |-> "none", id |-> 0, role |-> NULL, ok |-> FALSE]

\* ComercialManager as an admin sees it mounted: useState(true) for loading,
\* the dialog closed, and the loadComerciales of the effect under way.
InitComercial ==
    /\ auth_users = {}
    /\ submit = [k \in Calls |-> NoSubmit]
    /\ cmLoading = TRUE
    /\ dialogOpen = FALSE
    /\ comercialesList = {}
    /\ comercialesReq = 1
    /\ cmToast = NULL

InitLast == InitClients /\ InitSearch /\ InitComercial

InitMore == InitTrigger /\ InitHistory /\ InitAuth /\ InitLast

\* The screens the other specifications are about, before anything happened.
InitLater ==
    /\ reportOrders = <<>>
    /\ reportData = NoReport
    /\ pedidos_seq = 0
    /\ today = 1
    /\ numeros = <<>>
    /\ InitManager
    /\ InitMore

\* Rows as the migrations leave them: estado DEFAULT 'recibido' / 'pendiente',
\* items_confirmados DEFAULT '{}', the other columns NULL.
Init ==
    /\ pedidos = [o \in Orders |->
            [estado |-> "recibido", notas_operativas |-> NULL,
             items_confirmados |-> {}, fecha_entrega_estimada |-> NULL]]
    /\ pedido_items = [i \in Items |-> [estado |-> "pendiente"]]
    /\ tx = [i \in Items |-> NoTx]
    /\ cpo = NoCpo
    /\ loading = FALSE
    /\ lastOp = NoOp
    /\ nops = 0
    /\ catalogos_clientes = [p \in Products |-> "none"]
    /\ catalogoItems = [p \in Products |-> "none"]
    /\ saving = FALSE
    /\ clientes = [c \in Clientes |-> [comercial_id |-> 1, activo |-> TRUE]]
    /\ cliente_id = [o \in Orders |-> 1]
    /\ user = 0
    /\ rows = NoRows
    /\ InitLater

\* ------------------------------------------------------ the database
\* Mutant: the constraint still admits the old default 'pendiente'.
CheckPedido_old(e) == e \in PedidoEstados \cup {"pendiente"}

\* CHECK (estado IN (...)) on pedidos
CheckPedido(e) == e \in PedidoEstados

\* Mutant: pedido_items_estado_check is missing.
CheckItem_none(e) == TRUE

\* CHECK (estado IN (...)) on pedido_items
CheckItem(e) == e \in ItemEstados

\* Mutant: the first WHEN counts the decided items instead of the confirmed.
CaseOfItems_decided(view, o) ==
    LET total == Cardinality(ItemsOf(o))
        decididos == Cardinality({i \in ItemsOf(o) :
                                    view[i] \in {"confirmado", "no_confirmado"}})
    IN  IF decididos = total THEN "preparacion"
        ELSE IF decididos > 0 THEN "confirmado_parcial"
        ELSE "ELSE"

\* The CASE of update_order_status_from_items, evaluated over the item rows
\* the trigger's UPDATE statement sees; "ELSE" stands for the ELSE branch.
CaseOfItems(view, o) ==
    LET confirmado == Cardinality({i \in ItemsOf(o) : view[i] = "confirmado"})
        total == Cardinality(ItemsOf(o))
        decididos == Cardinality({i \in ItemsOf(o) :
                                    view[i] \in {"confirmado", "no_confirmado"}})
    IN  IF confirmado = total THEN "preparacion"
        ELSE IF decididos > 0 THEN "confirmado_parcial"
        ELSE "ELSE"

\* SET estado = CASE ... ELSE estado END, on the row being updated
update_order_status_from_items(case, estado) ==
    IF case = "ELSE" THEN estado ELSE case

\* Mutant: the trigger is declared without its WHEN clause.
update_order_status_trigger_any(old, new) == TRUE

\* WHEN (OLD.estado IS DISTINCT FROM NEW.estado)
update_order_status_trigger(old, new) == old # new

\* The item rows a statement of the transaction updating item i sees under
\* READ COMMITTED: the committed rows and the transaction's own write.
Visible(i, new) == [j \in Items |-> IF j = i THEN new ELSE pedido_items[j].estado]

Snap(i) == [item |-> pedido_items[i].estado, pedido |-> pedidos[pedido_id(i)].estado]
SnapAfter(i) == [item |-> pedido_items'[i].estado, pedido |-> pedidos'[pedido_id(i)].estado]
OSnap(o) == [item |-> NULL, pedido |-> pedidos[o].estado]
OSnapAfter(o) == [item |-> NULL, pedido |-> pedidos'[o].estado]

\* The database rows differ after the step.
Changed == pedidos' # pedidos \/ pedido_items' # pedido_items

\* Mutant: the order UPDATE is issued after the first item UPDATE returned.
AllReturned_first(done, sel) == done # {} \/ DOMAIN sel = {}

\* await Promise.all(updatePromises): resolved once every item UPDATE returned
AllReturned(done, sel) == done = DOMAIN sel

\* Mutant: setLoading(false) is missing from the finally.
Finally_missing(l) == l

\* finally { setLoading(false) }
Finally(l) == FALSE

\* After confirmPartialOrder has returned, the updates it left in flight
\* belong to no call.
Abandon(t) ==
    [j \in Items |-> IF t[j].src = "cpo" THEN [t[j] EXCEPT !.src = "orphan"] ELSE t[j]]

\* What the client does when the response to the UPDATE of item i arrives:
\* the rest of updateItemStatus, or the Promise.all of confirmPartialOrder.
OnItemResponse(i, ok, cause) ==
    LET t == tx[i]
        rest == [tx EXCEPT ![i] = NoTx]
    IN  CASE t.src = "uis" ->
               /\ tx' = rest
               /\ loading' = Finally(loading)
               /\ lastOp' = [NoOp EXCEPT !.op = "updateItemStatus", !.target = i,
                                !.arg = t.new, !.before = Snap(i), !.after = SnapAfter(i),
                                !.failed = cause, !.ret = ok,
                                !.toast = IF ok THEN <<"success">> ELSE <<"error">>,
                                !.changed = Changed]
               /\ cpo' = cpo
          [] t.src = "cpo" /\ ok ->
               LET done2 == cpo.done \cup {i} IN
               /\ tx' = rest
               /\ cpo' = [cpo EXCEPT !.done = done2,
                                     !.fired = cpo.fired \/ t.fires,
                                     !.pc = IF AllReturned(done2, cpo.sel) THEN "order" ELSE "items"]
               /\ UNCHANGED <<loading, lastOp>>
          [] t.src = "cpo" /\ ~ok ->
               /\ tx' = Abandon(rest)
               /\ cpo' = NoCpo
               /\ loading' = Finally(loading)
               /\ lastOp' = [NoOp EXCEPT !.op = "confirmPartialOrder", !.target = cpo.pedidoId,
                                !.arg = cpo.sel, !.before = cpo.before,
                                !.after = OSnapAfter(cpo.pedidoId),
                                !.failed = cause, !.ret = FALSE, !.toast = <<"error">>,
                                !.stage = "item", !.fired = cpo.fired, !.clean = cpo.clean,
                                !.changed = Changed]
          [] OTHER ->
               /\ tx' = rest
               /\ UNCHANGED <<cpo, loading, lastOp>>

\* The database runs UPDATE pedido_items SET estado = new WHERE id = i: the
\* row is written inside the transaction and, when estado changed, the
\* trigger's statement takes its snapshot and evaluates the CASE.
ItemUpdate_Exec(i) ==
    /\ tx[i].phase = "sent"
    /\ CheckItem(tx[i].new)
    /\ tx' = [tx EXCEPT ![i] =
            [@ EXCEPT !.phase = "snap",
                      !.fires = update_order_status_trigger(pedido_items[i].estado, tx[i].new),
                      !.result = CaseOfItems(Visible(i, tx[i].new), pedido_id(i))]]
    /\ UNCHANGED <<pedidos, pedido_items, cpo, loading, lastOp, nops>>

\* The transaction commits (the trigger's UPDATE of the pedidos row takes the
\* row lock and reads the row's latest estado for the ELSE branch) and the
\* response reaches the client.
ItemUpdate_Commit(i) ==
    LET o == pedido_id(i)
        new == update_order_status_from_items(tx[i].result, pedidos[o].estado)
    IN  /\ tx[i].phase = "snap"
        /\ pedido_items' = [pedido_items EXCEPT ![i].estado = tx[i].new]
        /\ pedidos' = IF tx[i].fires THEN [pedidos EXCEPT ![o].estado = new] ELSE pedidos
        /\ OnItemResponse(i, TRUE, "none")
        /\ UNCHANGED nops

\* The UPDATE fails: the value violates pedido_items_estado_check, or the
\* request itself fails; nothing is written.
ItemUpdate_Reject(i) ==
    /\ tx[i].phase = "sent"
    /\ UNCHANGED <<pedidos, pedido_items, nops>>
    /\ OnItemResponse(i, FALSE, IF CheckItem(tx[i].new) THEN "env" ELSE "constraint")

\* Mutant: the UPDATE leaves estado out.
WriteRow_noEstado(row, r) ==
    [estado |-> row.estado,
     notas_operativas |-> IF r.notas = NULL THEN row.notas_operativas ELSE r.notas,
     items_confirmados |-> IF r.conf = <<>> THEN row.items_confirmados ELSE r.conf[1],
     fecha_entrega_estimada |-> IF r.fecha = NULL THEN row.fecha_entrega_estimada ELSE r.fecha]

\* The columns an UPDATE of a pedidos row sets; a column the request does not
\* name (NULL, or <<>> for items_confirmados) keeps its value.
WriteRow(row, r) ==
    [estado |-> IF r.estado = NULL THEN row.estado ELSE r.estado,
     notas_operativas |-> IF r.notas = NULL THEN row.notas_operativas ELSE r.notas,
     items_confirmados |-> IF r.conf = <<>> THEN row.items_confirmados ELSE r.conf[1],
     fecha_entrega_estimada |-> IF r.fecha = NULL THEN row.fecha_entrega_estimada ELSE r.fecha]

Req(op, o, estado, notas, conf, fecha) ==
    [op |-> op, pedidoId |-> o, estado |-> estado, notas |-> notas, conf |-> conf,
     fecha |-> fecha]

\* One user action at a time: a handler other than scheduleDelivery starts
\* when no call of the hook is awaiting a response. (Updates a failed confirmPartialOrder left in flight
\* belong to no call and may still be running.)
Idle == cpo.pc = "idle" /\ \A i \in Items : tx[i].src # "uis"

\* Mutant: a transition guard that keeps a delivered or cancelled order.
UpdatePedido_terminal(r, ok) ==
    IF /\ ok
       /\ CheckPedido(WriteRow(pedidos[r.pedidoId], r).estado)
       /\ pedidos[r.pedidoId].estado \notin {"entregado", "cancelado"}
      THEN [pedidos EXCEPT ![r.pedidoId] = WriteRow(@, r)]
      ELSE pedidos

\* The database runs a single-row UPDATE of pedidos: the row is written
\* unless the new row violates pedidos_estado_workflow_check or the request
\* itself fails (ok = FALSE).
UpdatePedido(r, ok) ==
    IF ok /\ CheckPedido(WriteRow(pedidos[r.pedidoId], r).estado)
      THEN [pedidos EXCEPT ![r.pedidoId] = WriteRow(@, r)]
      ELSE pedidos

\* error of the response: NULL when the UPDATE was applied
ErrorOf(r, ok) ==
    IF ~CheckPedido(WriteRow(pedidos[r.pedidoId], r).estado) THEN "constraint"
    ELSE IF ~ok THEN "env" ELSE "none"

\* The try / catch / finally of a handler that awaits one UPDATE of pedidos:
\* if (error) throw error; success toast and return true; the catch shows
\* the error toast and returns false.
Outcome(r, ok) ==
    [NoOp EXCEPT !.op = r.op, !.target = r.pedidoId, !.arg = r.estado,
                 !.before = OSnap(r.pedidoId), !.after = OSnapAfter(r.pedidoId),
                 !.failed = ErrorOf(r, ok), !.ret = (ErrorOf(r, ok) = "none"),
                 !.toast = IF ErrorOf(r, ok) = "none" THEN <<"success">> ELSE <<"error">>,
                 !.changed = Changed]

\* ------------------------------------------------- useOrderOperations
\* updateOrderStatus: setLoading(true), the UPDATE of estado and
\* notas_operativas, the toast, and setLoading(false) in the finally.
updateOrderStatus(o, newStatus, notes, ok) ==
    LET r == Req("updateOrderStatus", o, newStatus, notes, <<>>, NULL) IN
    /\ nops < MaxOps
    /\ Idle
    /\ pedidos' = UpdatePedido(r, ok)
    /\ UNCHANGED <<pedido_items, tx, cpo>>
    /\ lastOp' = Outcome(r, ok)
    /\ loading' = Finally(loading)
    /\ nops' = nops + 1

\* scheduleDelivery: the UPDATE of fecha_entrega_estimada and estado. Its
\* button is disabled by the empty date only, so it also runs while another
\* operation of the hook awaits a response; a confirmPartialOrder it runs
\* into no longer runs alone.
scheduleDelivery(o, deliveryDate, ok) ==
    LET r == Req("scheduleDelivery", o, "enviado", NULL, <<>>, deliveryDate) IN
    /\ nops < MaxOps
    /\ pedidos' = UpdatePedido(r, ok)
    /\ UNCHANGED <<pedido_items, tx>>
    /\ cpo' = IF cpo.pc = "idle" THEN cpo ELSE [cpo EXCEPT !.clean = FALSE]
    /\ lastOp' = Outcome(r, ok)
    /\ loading' = Finally(loading)
    /\ nops' = nops + 1

\* OrderTimeline: the "Marcar como" button of an order whose estado has a
\* next status calls updateOrderStatus(order.id, nextStatus): the UPDATE of
\* estado, then toast.success, or toast.error in the catch.
Timeline_updateOrderStatus(o, ok) ==
    LET nextStatus == getNextStatus(pedidos[o].estado)
        r == Req("OrderTimeline.updateOrderStatus", o, nextStatus, NULL, <<>>, NULL)
    IN  /\ nops < MaxOps
        /\ Idle
        /\ nextStatus # NULL
        /\ pedidos' = UpdatePedido(r, ok)
        /\ UNCHANGED <<pedido_items, tx, cpo, loading>>
        /\ lastOp' = Outcome(r, ok)
        /\ nops' = nops + 1

\* updateItemStatus up to its await.
updateItemStatus(i, newStatus) ==
    /\ nops < MaxOps
    /\ Idle
    /\ tx[i].phase = "none"
    /\ tx' = [tx EXCEPT ![i] = [NoTx EXCEPT !.phase = "sent", !.src = "uis", !.new = newStatus]]
    /\ loading' = TRUE
    /\ cpo' = cpo
    /\ nops' = nops + 1
    /\ UNCHANGED <<pedidos, pedido_items, lastOp>>

\* confirmPartialOrder up to its first await: setLoading(true) and one UPDATE
\* per selected item, all issued before Promise.all is awaited. With nothing
\* selected Promise.all resolves at once and the order UPDATE is issued.
confirmPartialOrder(o, sel, notes) ==
    /\ nops < MaxOps
    /\ Idle
    /\ cpo.pc = "idle"
    /\ \A i \in DOMAIN sel : tx[i].phase = "none"
    /\ tx' = [i \in Items |->
                IF i \in DOMAIN sel
                  THEN [NoTx EXCEPT !.phase = "sent", !.src = "cpo",
                                    !.new = IF sel[i] THEN "confirmado" ELSE "no_confirmado"]
                  ELSE tx[i]]
    /\ cpo' = [pc |-> IF AllReturned({}, sel) THEN "order" ELSE "items",
               pedidoId |-> o, sel |-> sel, notes |-> notes, done |-> {},
               before |-> OSnap(o), fired |-> FALSE,
               clean |-> \A i \in Items : tx[i].phase = "none"]
    /\ loading' = TRUE
    /\ nops' = nops + 1
    /\ UNCHANGED <<pedidos, pedido_items, lastOp>>

\* The rest of confirmPartialOrder once its UPDATE of the order returned.
OnCpoOrderResponse(ok, cause) ==
    /\ lastOp' = [NoOp EXCEPT !.op = "confirmPartialOrder", !.target = cpo.pedidoId,
                     !.arg = cpo.sel, !.before = cpo.before,
                     !.after = OSnapAfter(cpo.pedidoId),
                     !.failed = cause, !.ret = ok,
                     !.toast = IF ok THEN <<"success">> ELSE <<"error">>,
                     !.stage = "order", !.fired = cpo.fired, !.clean = cpo.clean,
                     !.changed = Changed]
    /\ loading' = Finally(loading)
    /\ cpo' = NoCpo

\* confirmPartialOrder's UPDATE of notas_operativas and items_confirmados.
CpoOrderUpdate_Apply ==
    /\ cpo.pc = "order"
    /\ pedidos' = [pedidos EXCEPT ![cpo.pedidoId] =
            WriteRow(@, Req("confirmPartialOrder", cpo.pedidoId, NULL, cpo.notes,
                            <<{<<i, cpo.sel[i]>> : i \in DOMAIN cpo.sel}>>, NULL))]
    /\ UNCHANGED <<pedido_items, tx, nops>>
    /\ OnCpoOrderResponse(TRUE, "none")

CpoOrderUpdate_Reject ==
    /\ cpo.pc = "order"
    /\ UNCHANGED <<pedidos, pedido_items, tx, nops>>
    /\ OnCpoOrderResponse(FALSE, "env")

\* Selections handleConfirmPartialOrder hands to confirmPartialOrder:
\* selectedItems holds one entry, item id -> confirmed, per item of the order
\* whose items loadOrderItems loaded last (not always the selected order).
Selections == UNION {[ItemsOf(o) -> BOOLEAN] : o \in Orders}

\* The step commits an UPDATE of an item of order o whose trigger fired and
\* whose CASE took one of its WHEN branches.
TriggerWrote(o) ==
    \E i \in Items :
        /\ pedido_id(i) = o
        /\ tx[i].phase = "snap" /\ tx'[i].phase = "none"
        /\ tx[i].fires /\ tx[i].result # "ELSE"

\* The step is a handler whose UPDATE of estado of order o was applied:
\* updateOrderStatus, scheduleDelivery or OrderTimeline's updateOrderStatus.
DirectWrote(o) ==
    /\ nops' = nops + 1 /\ tx' = tx /\ cpo'.pc = cpo.pc
    /\ lastOp'.op \in {"updateOrderStatus", "scheduleDelivery",
                        "OrderTimeline.updateOrderStatus"}
    /\ lastOp'.target = o
    /\ lastOp'.ret

\* Who wrote estado of each order last, after the step.
EstadoWriter ==
    estado_by' = [o \in Orders |->
                    IF TriggerWrote(o) THEN "trigger"
                    ELSE IF DirectWrote(o) THEN "direct"
                    ELSE estado_by[o]]

\* A step of the order screens leaves the catalog and the query screens alone.
OtherScreens ==
    /\ UNCHANGED <<catalogVars, queryVars, reportVars, numeroVars, managerVars, triggerVars,
                   authVars, lastVars>>
    /\ EstadoWriter

Next ==
    \/ \E o \in Orders, t \in OrderWriteValues, n \in Notes, ok \in BOOLEAN :
            updateOrderStatus(o, t, n, ok) /\ OtherScreens
    \/ \E o \in Orders, d \in Dates, ok \in BOOLEAN :
            scheduleDelivery(o, d, ok) /\ OtherScreens
    \/ \E o \in Orders, ok \in BOOLEAN : Timeline_updateOrderStatus(o, ok) /\ OtherScreens
    \/ \E i \in Items, t \in ItemWriteValues : updateItemStatus(i, t) /\ OtherScreens
    \/ \E o \in Orders, sel \in Selections, n \in Notes :
            confirmPartialOrder(o, sel, n) /\ OtherScreens
    \/ \E i \in Items : ItemUpdate_Exec(i) /\ OtherScreens
    \/ \E i \in Items : ItemUpdate_Commit(i) /\ OtherScreens
    \/ \E i \in Items : ItemUpdate_Reject(i) /\ OtherScreens
    \/ CpoOrderUpdate_Apply /\ OtherScreens
    \/ CpoOrderUpdate_Reject /\ OtherScreens

Spec == Init /\ [][Next]_vars

\* ----------------------------------------------------- CatalogManager
\* isProductInCatalog: some loaded row of the product has activo = true
isProductInCatalog(productId) == catalogoItems[productId] = "activo"

\* UPDATE catalogos_clientes SET activo = false for the rows of the given
\* products: a product without a row has none to update.
Deactivate(productIds, ok) ==
    [p \in Products |->
        IF ok /\ p \in productIds /\ catalogos_clientes[p] # "none"
          THEN "inactivo" ELSE catalogos_clientes[p]]

\* upsert of {cliente_id, producto_id, activo: true} for the given products
Upsert(productIds, ok) ==
    [p \in Products |->
        IF ok /\ p \in productIds THEN "activo" ELSE catalogos_clientes[p]]

LoadResults == {"ok", "no_cliente", "no_catalogo"}

\* loadData as toggleProduct and handleBulkToggle await it: without the
\* client row it shows "Cliente no encontrado" and returns before the catalog
\* is read; a failed read of the catalog sets catalogoItems to [].
loadData(res) ==
    CASE res = "ok" -> catalogos_clientes'
      [] res = "no_cliente" -> catalogoItems
      [] OTHER -> [p \in Products |-> "none"]

loadDataToast(res) == IF res = "no_cliente" THEN <<"error">> ELSE <<>>

CatalogOp(op, arg, ok, toast) ==
    [NoOp EXCEPT !.op = op, !.arg = arg,
                 !.failed = IF ok THEN "none" ELSE "env",
                 !.toast = toast, !.stage = "catalog",
                 !.changed = (catalogos_clientes' # catalogos_clientes)]

\* toggleProduct: the remove branch awaits the UPDATE and drops its result;
\* the add branch throws the upsert's error. Then loadData and the toast
\* "Producto removido" / "Producto agregado"; the catch shows the error toast.
toggleProduct(productId, ok, res) ==
    /\ ~saving
    /\ IF isProductInCatalog(productId)
         THEN /\ catalogos_clientes' = Deactivate({productId}, ok)
              /\ catalogoItems' = loadData(res)
              /\ lastOp' = CatalogOp("toggleProduct.remove", productId, ok,
                                loadDataToast(res) \o <<"success">>)
         ELSE /\ catalogos_clientes' = Upsert({productId}, ok)
              /\ catalogoItems' = IF ok THEN loadData(res) ELSE catalogoItems
              /\ lastOp' = CatalogOp("toggleProduct.add", productId, ok,
                                IF ok THEN loadDataToast(res) \o <<"success">>
                                      ELSE <<"error">>)
    /\ UNCHANGED saving

\* handleBulkToggle(enable) over filteredProducts: setSaving(true), one upsert
\* or one UPDATE whose result is dropped, loadData, the toast "Productos
\* agregados" / "Productos removidos", and setSaving(false) in the finally.
handleBulkToggle(enable, filteredProducts, ok, res) ==
    /\ ~saving
    /\ catalogos_clientes' =
          IF enable THEN Upsert(filteredProducts, ok)
                    ELSE Deactivate(filteredProducts, ok)
    /\ catalogoItems' = loadData(res)
    /\ lastOp' = CatalogOp(IF enable THEN "handleBulkToggle.add"
                                     ELSE "handleBulkToggle.remove",
                           filteredProducts, ok, loadDataToast(res) \o <<"success">>)
    /\ saving' = FALSE

NextCatalog ==
    \/ \E p \in Products, ok \in BOOLEAN, res \in LoadResults :
            toggleProduct(p, ok, res) /\ UNCHANGED <<orderVars, queryVars, laterVars>>
    \/ \E enable \in BOOLEAN, f \in SUBSET Products, ok \in BOOLEAN, res \in LoadResults :
            handleBulkToggle(enable, f, ok, res) /\ UNCHANGED <<orderVars, queryVars, laterVars>>

SpecCatalog == Init /\ [][NextCatalog]_vars

\* ------------------------------------------------- queries of screens
\* comercial_id of the client of an order (the embedded clientes row)
comercial_id(o) == clientes[cliente_id[o]].comercial_id

\* .eq('clientes.comercial_id', user.id) on an inner join of clientes
OrdersOfComercial(u) == {o \in Orders : comercial_id(o) = u}

\* .eq('comercial_id', user.id) on clientes
ClientesOfComercial(u) == {c \in Clientes : clientes[c].comercial_id = u}

Loaded(screen, ps, cs) == [screen |-> screen, pedidos |-> ps, clientes |-> cs]

\* useAuth: the session's user is set when the sign-in completes; the screens
\* mount after it and hold no rows yet.
signIn(u) ==
    /\ user = 0
    /\ user' = u
    /\ rows' = NoRows
    /\ UNCHANGED <<clientes, cliente_id>>

\* BusinessDashboard.loadDashboardData: the user's active clients and the
\* orders of the user's clients
BusinessDashboard_loadDashboardData ==
    /\ user # 0
    /\ rows' = Loaded("BusinessDashboard", OrdersOfComercial(user),
                      {c \in ClientesOfComercial(user) : clientes[c].activo})
    /\ UNCHANGED <<clientes, cliente_id, user>>

\* OrderTimeline.loadOrders
OrderTimeline_loadOrders ==
    /\ user # 0
    /\ rows' = Loaded("OrderTimeline", OrdersOfComercial(user), {})
    /\ UNCHANGED <<clientes, cliente_id, user>>

\* ReportGenerator.generateReportData; inRange: the orders whose fecha_pedido
\* lies in the chosen date range
ReportGenerator_generateReportData(inRange) ==
    /\ user # 0
    /\ rows' = Loaded("ReportGenerator", OrdersOfComercial(user) \cap inRange, {})
    /\ UNCHANGED <<clientes, cliente_id, user>>

\* GlobalSearch.performSearch; matchC, matchO: the rows the search term matches
GlobalSearch_performSearch(type, matchC, matchO) ==
    /\ user # 0
    /\ rows' = Loaded("GlobalSearch",
                      IF type \in {"all", "orders"}
                        THEN OrdersOfComercial(user) \cap matchO ELSE {},
                      IF type \in {"all", "clients"}
                        THEN ClientesOfComercial(user) \cap matchC ELSE {})
    /\ UNCHANGED <<clientes, cliente_id, user>>

\* OperationalOrderManager.loadOrders: from('pedidos').select(...).order(...)
OperationalOrderManager_loadOrders ==
    /\ rows' = Loaded("OperationalOrderManager", Orders, {})
    /\ UNCHANGED <<clientes, cliente_id, user>>

\* AdvancedAnalytics.loadAnalytics: every row of pedidos, and in
\* processClientSegmentation every row of clientes
AdvancedAnalytics_loadAnalytics ==
    /\ rows' = Loaded("AdvancedAnalytics", Orders, Clientes)
    /\ UNCHANGED <<clientes, cliente_id, user>>

\* CommissionReportGenerator.generateOperationalReport: the orders in the
\* date range whose estado is 'entregado'
generateOperationalReport(inRange) ==
    /\ rows' = Loaded("CommissionReportGenerator",
                      {o \in inRange : pedidos[o].estado = "entregado"}, {})
    /\ UNCHANGED <<clientes, cliente_id, user>>

\* The tables as the queries find them: every client belongs to some
\* commercial user, every order to some client, in any estado an order of the
\* reports can have.
InitQueries ==
    /\ pedidos \in [Orders ->
            [estado : {"recibido", "entregado"}, notas_operativas : {NULL},
             items_confirmados : {{}}, fecha_entrega_estimada : {NULL}]]
    /\ pedido_items = [i \in Items |-> [estado |-> "pendiente"]]
    /\ tx = [i \in Items |-> NoTx]
    /\ cpo = NoCpo
    /\ loading = FALSE
    /\ lastOp = NoOp
    /\ nops = 0
    /\ catalogos_clientes = [p \in Products |-> "none"]
    /\ catalogoItems = [p \in Products |-> "none"]
    /\ saving = FALSE
    /\ clientes \in [Clientes -> [comercial_id : Comerciales, activo : BOOLEAN]]
    /\ cliente_id \in [Orders -> Clientes]
    /\ user = 0
    /\ rows = NoRows
    /\ InitLater

NextQueries ==
    \/ \E u \in Comerciales : signIn(u) /\ UNCHANGED <<orderVars, lastOp, catalogVars, laterVars>>
    \/ BusinessDashboard_loadDashboardData /\ UNCHANGED <<orderVars, lastOp, catalogVars, laterVars>>
    \/ OrderTimeline_loadOrders /\ UNCHANGED <<orderVars, lastOp, catalogVars, laterVars>>
    \/ \E r \in SUBSET Orders :
            ReportGenerator_generateReportData(r) /\ UNCHANGED <<orderVars, lastOp, catalogVars, laterVars>>
    \/ \E t \in {"all", "clients", "products", "orders"}, mc \in SUBSET Clientes, mo \in SUBSET Orders :
            GlobalSearch_performSearch(t, mc, mo) /\ UNCHANGED <<orderVars, lastOp, catalogVars, laterVars>>
    \/ OperationalOrderManager_loadOrders /\ UNCHANGED <<orderVars, lastOp, catalogVars, laterVars>>
    \/ AdvancedAnalytics_loadAnalytics /\ UNCHANGED <<orderVars, lastOp, catalogVars, laterVars>>
    \/ \E r \in SUBSET Orders :
            generateOperationalReport(r) /\ UNCHANGED <<orderVars, lastOp, catalogVars, laterVars>>

SpecQueries == InitQueries /\ [][NextQueries]_vars

\* ---------------------------------------- ReportGenerator.processReportData
\* .slice(0, 10)
TopN == 10

Names == 1..NumNames

\* productos?.nombre || 'Producto desconocido': an item without a product has
\* nombre -1 here, and 0 stands for the fallback name
productName(item) == IF item.nombre = -1 THEN 0 ELSE item.nombre

\* orders.reduce((sum, order) => sum + parseFloat(order.total), 0)
RECURSIVE SumTotals(_)
SumTotals(orders) ==
    IF orders = <<>> THEN 0
    ELSE SumTotals(SubSeq(orders, 1, Len(orders) - 1)) + orders[Len(orders)].total

\* position of a key in a Map's entries, 0 when the Map does not have it
IndexOf(entries, name) ==
    IF \E k \in DOMAIN entries : entries[k].name = name
      THEN CHOOSE k \in DOMAIN entries : entries[k].name = name
      ELSE 0

\* One step of the forEach over items: productStats.set on a new name, then
\* current.sales += cantidad * precio_unitario; current.quantity += cantidad
AddItem(stats, item) ==
    LET name == productName(item)
        k == IndexOf(stats, name)
        amount == item.cantidad * item.precio_unitario
    IN  IF k = 0
          THEN Append(stats, [name |-> name, sales |-> amount, quantity |-> item.cantidad])
          ELSE [stats EXCEPT ![k] = [name |-> name, sales |-> @.sales + amount,
                                     quantity |-> @.quantity + item.cantidad]]

RECURSIVE AddItems(_, _)
AddItems(stats, items) ==
    IF items = <<>> THEN stats
    ELSE AddItems(AddItem(stats, Head(items)), Tail(items))

\* orders.forEach(order => order.pedido_items?.forEach(...))
RECURSIVE productStats(_, _)
productStats(stats, orders) ==
    IF orders = <<>> THEN stats
    ELSE productStats(AddItems(stats, Head(orders).pedido_items), Tail(orders))

\* Mutant: the comparator sorts ascending.
compareSales_asc(a, b) == a.sales - b.sales

\* (a, b) => b.sales - a.sales
compareSales(a, b) == b.sales - a.sales

\* Array.prototype.sort is stable: an element goes after the sorted elements
\* the comparator does not put behind it.
RECURSIVE InsertSorted(_, _)
InsertSorted(sorted, x) ==
    IF sorted = <<>> THEN <<x>>
    ELSE IF compareSales(Head(sorted), x) <= 0
           THEN <<Head(sorted)>> \o InsertSorted(Tail(sorted), x)
           ELSE <<x>> \o sorted

RECURSIVE SortBySales(_, _)
SortBySales(sorted, rest) ==
    IF rest = <<>> THEN sorted
    ELSE SortBySales(InsertSorted(sorted, Head(rest)), Tail(rest))

\* .slice(0, n)
Slice(seq, n) == SubSeq(seq, 1, IF Len(seq) < n THEN Len(seq) ELSE n)

\* avgOrderValue as the quotient num / den
Quotient(num, den) == [num |-> num, den |-> den]

processReportData(orders) ==
    LET totalSales == SumTotals(orders)
        totalOrders == Len(orders)
    IN  [generated |-> TRUE,
         summary |->
            [totalSales |-> totalSales,
             totalOrders |-> totalOrders,
             totalClients |-> Cardinality({orders[k].cliente_id : k \in DOMAIN orders}),
             avgOrderValue |-> IF totalOrders > 0 THEN Quotient(totalSales, totalOrders)
                                                  ELSE Quotient(0, 1)],
         topProducts |-> Slice(SortBySales(<<>>, productStats(<<>>, orders)), TopN)]

\* generateReportData once the query returned: setReportData(processReportData(ordersData))
setReportData ==
    /\ reportData' = processReportData(reportOrders)
    /\ UNCHANGED reportOrders

\* The lists of orders the checks hand to processReportData. One order holds
\* at most one item of quantity 1 and price 1 per product name, a second one
\* items of the last two names in any quantity up to MaxCantidad at price 2
\* and possibly an item without a product; the two come in either order, for
\* the same client or not, and the list may hold one order or none.
Item(n, c, p) == [nombre |-> n, cantidad |-> c, precio_unitario |-> p]

RECURSIVE ItemsFor(_, _, _, _)
ItemsFor(names, n, qty, price) ==
    IF n > NumNames THEN <<>>
    ELSE (IF n \in names /\ qty[n] > 0 THEN <<Item(n, qty[n], price)>> ELSE <<>>)
         \o ItemsFor(names, n + 1, qty, price)

LastNames == {n \in Names : n >= NumNames - 1}

ReportOrderA(present) ==
    [cliente_id |-> 1, total |-> Cardinality(present),
     pedido_items |-> ItemsFor(present, 1, [n \in Names |-> 1], 1)]

ReportOrderB(qty, unknown, cliente) ==
    [cliente_id |-> cliente, total |-> 7,
     pedido_items |-> ItemsFor(LastNames, 1, qty, 2)
                      \o (IF unknown THEN <<Item(-1, 1, 3)>> ELSE <<>>)]

ReportInputs ==
    {<<>>}
    \cup {<<ReportOrderA(present)>> : present \in SUBSET Names}
    \cup UNION { UNION { {<<ReportOrderA(present), ReportOrderB(x[1], x[2], x[3])>>,
                          <<ReportOrderB(x[1], x[2], x[3]), ReportOrderA(present)>>} :
                         x \in [LastNames -> 0..MaxCantidad] \X BOOLEAN \X Clientes } :
                 present \in {P \in SUBSET Names : Cardinality(P) >= NumNames - 1} }

\* The order, catalog and query screens before anything happened.
InitScreens ==
    /\ pedidos = [o \in Orders |->
            [estado |-> "recibido", notas_operativas |-> NULL,
             items_confirmados |-> {}, fecha_entrega_estimada |-> NULL]]
    /\ pedido_items = [i \in Items |-> [estado |-> "pendiente"]]
    /\ tx = [i \in Items |-> NoTx]
    /\ cpo = NoCpo
    /\ loading = FALSE
    /\ lastOp = NoOp
    /\ nops = 0
    /\ catalogos_clientes = [p \in Products |-> "none"]
    /\ catalogoItems = [p \in Products |-> "none"]
    /\ saving = FALSE
    /\ clientes = [c \in Clientes |-> [comercial_id |-> 1, activo |-> TRUE]]
    /\ cliente_id = [o \in Orders |-> 1]
    /\ user = 0
    /\ rows = NoRows

InitReport ==
    /\ InitScreens
    /\ reportOrders \in ReportInputs
    /\ reportData = NoReport
    /\ pedidos_seq = 0
    /\ today = 1
    /\ numeros = <<>>
    /\ InitManager
    /\ InitMore

NextReport ==
    setReportData /\ UNCHANGED <<orderVars, lastOp, catalogVars, queryVars, numeroVars, managerVars, moreVars>>

SpecReport == InitReport /\ [][NextReport]_vars

\* ------------------------------------------------ generate_pedido_numero
\* LPAD(..., 4, '0')
PadWidth == 4

\* nextval(...)::text: the decimal digits of a positive integer
RECURSIVE Digits(_)
Digits(n) == IF n < 10 THEN <<n>> ELSE Append(Digits(n \div 10), n % 10)

\* PostgreSQL lpad(string, length, fill): fills on the left up to length; a
\* string longer than length is truncated on the right.
LPAD(str, len, fill) ==
    IF Len(str) >= len THEN SubSeq(str, 1, len)
    ELSE [k \in 1..(len - Len(str)) |-> fill] \o str

\* 'PED-' || TO_CHAR(NOW(), 'YYYYMMDD') || '-' || LPAD(...): the fixed prefix
\* and the eight-character date make the text one-to-one with this pair.
generate_order_number(day, nv) == [date |-> day, number |-> LPAD(Digits(nv), PadWidth, 0)]

\* INSERT INTO pedidos with the BEFORE INSERT trigger generate_pedido_numero:
\* NEW.numero_pedido is assigned whatever the client supplied.
InsertPedido(supplied) ==
    /\ Len(numeros) < MaxInserts
    /\ pedidos_seq' = pedidos_seq + 1
    /\ numeros' = Append(numeros,
            [nextval |-> pedidos_seq', supplied |-> supplied,
             numero_pedido |-> generate_order_number(today, pedidos_seq')])
    /\ UNCHANGED today

\* NOW() moves to the next day.
NextDay ==
    /\ today < NumDays
    /\ today' = today + 1
    /\ UNCHANGED <<pedidos_seq, numeros>>

\* pedidos_seq after any number of earlier inserts.
InitNumero ==
    /\ InitScreens
    /\ reportOrders = <<>>
    /\ reportData = NoReport
    /\ pedidos_seq \in 0..MaxSeq
    /\ today = 1
    /\ numeros = <<>>
    /\ InitManager
    /\ InitMore

NextNumero ==
    \/ \E supplied \in {NULL, "PED-X"} :
            InsertPedido(supplied) /\ UNCHANGED <<orderVars, lastOp, catalogVars, queryVars, reportVars, managerVars, moreVars>>
    \/ NextDay /\ UNCHANGED <<orderVars, lastOp, catalogVars, queryVars, reportVars, managerVars, moreVars>>

SpecNumero == InitNumero /\ [][NextNumero]_vars

\* --------------------------------------- statements on pedido_items
\* MaxStatements bounds the statements of a behaviour.
\* AFTER UPDATE ON public.pedido_items
TriggerEvents == {"UPDATE"}

\* The CASE of update_order_status_from_items counted over the rows that exist
CaseOfRows(view, items) ==
    LET confirmado == Cardinality({i \in items : view[i] = "confirmado"})
        total == Cardinality(items)
        decididos == Cardinality({i \in items : view[i] \in {"confirmado", "no_confirmado"}})
    IN  IF confirmado = total THEN "preparacion"
        ELSE IF decididos > 0 THEN "confirmado_parcial"
        ELSE "ELSE"

\* One statement on row i of pedido_items, run alone: FOR EACH ROW the
\* trigger runs when the event is one it is declared for and its WHEN holds,
\* and then updates estado and updated_at of the order with id = NEW.pedido_id.
Statement(event, i, old, new) ==
    LET o == pedido_id(i)
        fires == event \in TriggerEvents /\ update_order_status_trigger(old, new)
        view == [j \in Items |-> pedido_items'[j].estado]
        present == {j \in item_rows' : pedido_id(j) = o}
    IN  /\ clock < MaxStatements
        /\ clock' = clock + 1
        /\ lastStmt' = [event |-> event, item |-> i, old |-> old, new |-> new]
        /\ pedidos' = IF fires
                        THEN [pedidos EXCEPT ![o].estado =
                                update_order_status_from_items(CaseOfRows(view, present), @)]
                        ELSE pedidos
        /\ updated_at' = IF fires THEN [updated_at EXCEPT ![o] = clock'] ELSE updated_at

\* INSERT INTO pedido_items (..., estado) of a row for the order pedido_id(i)
InsertItem(i, estado) ==
    /\ i \notin item_rows
    /\ CheckItem(estado)
    /\ item_rows' = item_rows \cup {i}
    /\ pedido_items' = [pedido_items EXCEPT ![i].estado = estado]
    /\ Statement("INSERT", i, NULL, estado)

\* DELETE FROM pedido_items WHERE id = i (a row that is gone is kept at the
\* column default in pedido_items)
DeleteItem(i) ==
    /\ i \in item_rows
    /\ item_rows' = item_rows \ {i}
    /\ pedido_items' = [pedido_items EXCEPT ![i].estado = "pendiente"]
    /\ Statement("DELETE", i, pedido_items[i].estado, NULL)

\* UPDATE pedido_items SET ... WHERE id = i; estado = pedido_items[i].estado
\* is an UPDATE that sets other columns only, or rewrites the same estado.
UpdateItem(i, estado) ==
    /\ i \in item_rows
    /\ CheckItem(estado)
    /\ item_rows' = item_rows
    /\ pedido_items' = [pedido_items EXCEPT ![i].estado = estado]
    /\ Statement("UPDATE", i, pedido_items[i].estado, estado)

NotTrigger ==
    UNCHANGED <<tx, cpo, loading, nops, lastOp, catalogVars, queryVars, reportVars,
                numeroVars, managerVars, historyVars, authVars, lastVars>>

NextTrigger ==
    \/ \E i \in Items, e \in ItemEstados : InsertItem(i, e) /\ NotTrigger
    \/ \E i \in Items : DeleteItem(i) /\ NotTrigger
    \/ \E i \in Items, e \in ItemEstados : UpdateItem(i, e) /\ NotTrigger

SpecTrigger == Init /\ [][NextTrigger]_vars

\* ---------------------------------------------- OperationalOrderManager
\* The order object of a row of pedidos as loadOrders selects it.
OrderObject(o) ==
    [id |-> o, estado |-> pedidos[o].estado,
     fecha_entrega_estimada |-> pedidos[o].fecha_entrega_estimada]

\* The open dialog covers the page: the list, the details card and the
\* "Actualizar" button are used while it is closed.
OnPage == ~showConfirmDialog

\* loadOrders() from the "Actualizar" button (the mount effect's call is in
\* flight in the initial state).
loadOrders ==
    /\ OnPage
    /\ ~ordersReq
    /\ ordersReq' = TRUE
    /\ UNCHANGED <<uiOrders, selectedOrder, orderItems, selectedItems, itemLoads,
                   uiDeliveryDate, showConfirmDialog, lastHandler>>

\* The response to loadOrders: setOrders(data), or the error toast.
OnLoadOrders(ok) ==
    /\ ordersReq
    /\ ordersReq' = FALSE
    /\ uiOrders' = IF ok THEN [o \in Orders |-> OrderObject(o)] ELSE uiOrders
    /\ UNCHANGED <<selectedOrder, orderItems, selectedItems, itemLoads, uiDeliveryDate,
                   showConfirmDialog, lastHandler>>

\* handleOrderSelect(order) on an order of the list: the order object as it
\* was loaded, its delivery date, and loadOrderItems(order.id) not awaited.
handleOrderSelect(o) ==
    /\ OnPage
    /\ uiOrders[o].id # 0
    /\ selectedOrder' = uiOrders[o]
    /\ uiDeliveryDate' = IF uiOrders[o].fecha_entrega_estimada = NULL
                           THEN "" ELSE uiOrders[o].fecha_entrega_estimada
    /\ itemLoads' = itemLoads \cup {o}
    /\ UNCHANGED <<uiOrders, ordersReq, orderItems, selectedItems, showConfirmDialog,
                   lastHandler>>

\* The response to loadOrderItems(orderId): setOrderItems(data) and
\* setSelectedItems with confirmed = (estado === 'confirmado') per item, or
\* the error toast.
OnLoadOrderItems(orderId, ok) ==
    /\ orderId \in itemLoads
    /\ itemLoads' = itemLoads \ {orderId}
    /\ IF ok
         THEN /\ orderItems' = ItemsOf(orderId)
              /\ selectedItems' = [i \in ItemsOf(orderId) |->
                                        pedido_items[i].estado = "confirmado"]
         ELSE UNCHANGED <<orderItems, selectedItems>>
    /\ UNCHANGED <<uiOrders, ordersReq, selectedOrder, uiDeliveryDate, showConfirmDialog,
                   lastHandler>>

\* The date input of the details card, shown while an order is selected.
setDeliveryDate(value) ==
    /\ OnPage
    /\ selectedOrder.id # 0
    /\ uiDeliveryDate' = value
    /\ uiDeliveryDate' # uiDeliveryDate
    /\ UNCHANGED <<uiOrders, ordersReq, selectedOrder, orderItems, selectedItems, itemLoads,
                   showConfirmDialog, lastHandler>>

\* "Confirmar Items Parciales" (disabled={!orderItems.length}) and the
\* dialog's Cancelar button
setShowConfirmDialog(open) ==
    /\ showConfirmDialog # open
    /\ open => (selectedOrder.id # 0 /\ orderItems # {})
    /\ showConfirmDialog' = open
    /\ UNCHANGED <<uiOrders, ordersReq, selectedOrder, orderItems, selectedItems, itemLoads,
                   uiDeliveryDate, lastHandler>>

\* A checkbox of the dialog: onCheckedChange on an item of orderItems
onCheckedChange(i, checked) ==
    /\ showConfirmDialog
    /\ i \in orderItems
    /\ selectedItems' = [j \in (DOMAIN selectedItems) \cup {i} |->
                            IF j = i THEN checked ELSE selectedItems[j]]
    /\ selectedItems' # selectedItems
    /\ UNCHANGED <<uiOrders, ordersReq, selectedOrder, orderItems, itemLoads, uiDeliveryDate,
                   showConfirmDialog, lastHandler>>

\* What a handler leaves behind when the hook's operation returned.
Handled(name, o, items, success) ==
    [name |-> name, order |-> o, items |-> items, requested |-> TRUE, success |-> success,
     uiEstado |-> selectedOrder'.estado,
     dbEstado |-> IF selectedOrder'.id = 0 THEN NULL ELSE pedidos'[selectedOrder'.id].estado]

\* handleUpdateOrderStatus(selectedOrder.id, status) from a status button
\* (disabled={operations.loading}); on success loadOrders() and
\* setSelectedOrder({...selectedOrder, estado: newStatus}).
handleUpdateOrderStatus(newStatus, notes, ok) ==
    /\ OnPage
    /\ selectedOrder.id # 0
    /\ ~loading
    /\ nops < MaxHandlers
    /\ updateOrderStatus(selectedOrder.id, newStatus, notes, ok)
    /\ IF lastOp'.ret
         THEN /\ ordersReq' = TRUE
              /\ selectedOrder' = [selectedOrder EXCEPT !.estado = newStatus]
         ELSE UNCHANGED <<ordersReq, selectedOrder>>
    /\ lastHandler' = Handled("handleUpdateOrderStatus", selectedOrder.id, {}, lastOp'.ret)
    /\ UNCHANGED <<uiOrders, orderItems, selectedItems, itemLoads, uiDeliveryDate,
                   showConfirmDialog>>

\* handleScheduleDelivery: returns at once without an order or a date;
\* otherwise scheduleDelivery(selectedOrder.id, deliveryDate) and on success
\* loadOrders() and setSelectedOrder({...selectedOrder, fecha_entrega_estimada}).
handleScheduleDelivery(ok) ==
    IF selectedOrder.id = 0 \/ uiDeliveryDate = ""
      THEN /\ lastHandler' = [NoHandler EXCEPT !.name = "handleScheduleDelivery",
                                               !.order = selectedOrder.id]
           /\ lastHandler' # lastHandler
           /\ UNCHANGED <<orderVars, lastOp, uiOrders, ordersReq, selectedOrder, orderItems,
                          selectedItems, itemLoads, uiDeliveryDate, showConfirmDialog>>
      ELSE /\ OnPage
           /\ nops < MaxHandlers
           /\ scheduleDelivery(selectedOrder.id, uiDeliveryDate, ok)
           /\ IF lastOp'.ret
                THEN /\ ordersReq' = TRUE
                     /\ selectedOrder' =
                            [selectedOrder EXCEPT !.fecha_entrega_estimada = uiDeliveryDate]
                ELSE UNCHANGED <<ordersReq, selectedOrder>>
           /\ lastHandler' = Handled("handleScheduleDelivery", selectedOrder.id, {}, lastOp'.ret)
           /\ UNCHANGED <<uiOrders, orderItems, selectedItems, itemLoads, uiDeliveryDate,
                          showConfirmDialog>>

\* handleConfirmPartialOrder from the dialog's confirm button
\* (disabled={operations.loading}) up to its await: every entry of
\* selectedItems goes to confirmPartialOrder with selectedOrder.id.
handleConfirmPartialOrder(notes) ==
    /\ showConfirmDialog
    /\ ~loading
    /\ selectedOrder.id # 0
    /\ nops < MaxHandlers
    /\ confirmPartialOrder(selectedOrder.id, selectedItems, notes)
    /\ lastHandler' = [NoHandler EXCEPT !.name = "handleConfirmPartialOrder",
                                        !.order = selectedOrder.id,
                                        !.items = DOMAIN selectedItems,
                                        !.requested = TRUE]
    /\ UNCHANGED <<uiOrders, ordersReq, selectedOrder, orderItems, selectedItems, itemLoads,
                   uiDeliveryDate, showConfirmDialog>>

\* The rest of handleConfirmPartialOrder in the step in which
\* confirmPartialOrder returns: if (success) setShowConfirmDialog(false),
\* loadOrders() and loadOrderItems(selectedOrder.id) with the order of the call.
AfterConfirm ==
    IF cpo.pc # "idle" /\ cpo'.pc = "idle"
      THEN /\ IF lastOp'.ret
                THEN /\ showConfirmDialog' = FALSE
                     /\ ordersReq' = TRUE
                     /\ itemLoads' = itemLoads \cup {cpo.pedidoId}
                ELSE UNCHANGED <<showConfirmDialog, ordersReq, itemLoads>>
           /\ UNCHANGED <<uiOrders, selectedOrder, orderItems, selectedItems, uiDeliveryDate>>
           /\ lastHandler' = Handled("handleConfirmPartialOrder", cpo.pedidoId,
                                     DOMAIN cpo.sel, lastOp'.ret)
      ELSE UNCHANGED managerVars

NotManager ==
    /\ UNCHANGED <<catalogVars, queryVars, reportVars, numeroVars, triggerVars, authVars,
                   lastVars>>
    /\ EstadoWriter

NextManager ==
    \/ loadOrders /\ UNCHANGED <<orderVars, lastOp>> /\ NotManager
    \/ \E ok \in BOOLEAN : OnLoadOrders(ok) /\ UNCHANGED <<orderVars, lastOp>> /\ NotManager
    \/ \E o \in Orders : handleOrderSelect(o) /\ UNCHANGED <<orderVars, lastOp>> /\ NotManager
    \/ \E o \in Orders, ok \in BOOLEAN :
            OnLoadOrderItems(o, ok) /\ UNCHANGED <<orderVars, lastOp>> /\ NotManager
    \/ \E d \in Dates \cup {""} :
            setDeliveryDate(d) /\ UNCHANGED <<orderVars, lastOp>> /\ NotManager
    \/ \E open \in BOOLEAN :
            setShowConfirmDialog(open) /\ UNCHANGED <<orderVars, lastOp>> /\ NotManager
    \/ \E i \in Items, checked \in BOOLEAN :
            onCheckedChange(i, checked) /\ UNCHANGED <<orderVars, lastOp>> /\ NotManager
    \/ \E t \in DOMAIN ORDER_STATUS_CONFIG, n \in Notes, ok \in BOOLEAN :
            handleUpdateOrderStatus(t, n, ok) /\ NotManager
    \/ \E ok \in BOOLEAN : handleScheduleDelivery(ok) /\ NotManager
    \/ \E n \in Notes : handleConfirmPartialOrder(n) /\ NotManager
    \/ \E i \in Items : ItemUpdate_Exec(i) /\ AfterConfirm /\ NotManager
    \/ \E i \in Items : ItemUpdate_Commit(i) /\ AfterConfirm /\ NotManager
    \/ \E i \in Items : ItemUpdate_Reject(i) /\ AfterConfirm /\ NotManager
    \/ CpoOrderUpdate_Apply /\ AfterConfirm /\ NotManager
    \/ CpoOrderUpdate_Reject /\ AfterConfirm /\ NotManager

SpecManager == Init /\ [][NextManager]_vars

\* ------------------------------------- handleScheduleDelivery, any order
\* Rows of pedidos as earlier writes can have left them.
DeliveryRows ==
    {[estado |-> e, notas_operativas |-> x[1], items_confirmados |-> x[2],
      fecha_entrega_estimada |-> NULL] :
        e \in PedidoEstados, x \in {<<NULL, {}>>, <<"nota", {<<1, TRUE>>}>>}}

\* The component with the orders loaded, over any rows: an order selected or
\* none, a delivery date entered or none.
InitDelivery ==
    /\ pedidos \in [Orders -> DeliveryRows]
    /\ pedido_items \in [Items -> [estado : {"pendiente", "confirmado", "sin_stock"}]]
    /\ tx = [i \in Items |-> NoTx]
    /\ cpo = NoCpo
    /\ loading = FALSE
    /\ lastOp = NoOp
    /\ nops = 0
    /\ catalogos_clientes = [p \in Products |-> "none"]
    /\ catalogoItems = [p \in Products |-> "none"]
    /\ saving = FALSE
    /\ clientes = [c \in Clientes |-> [comercial_id |-> 1, activo |-> TRUE]]
    /\ cliente_id = [o \in Orders |-> 1]
    /\ user = 0
    /\ rows = NoRows
    /\ reportOrders = <<>>
    /\ reportData = NoReport
    /\ pedidos_seq = 0
    /\ today = 1
    /\ numeros = <<>>
    /\ uiOrders = [o \in Orders |-> OrderObject(o)]
    /\ ordersReq = FALSE
    /\ selectedOrder \in {NoOrder} \cup {uiOrders[o] : o \in Orders}
    /\ orderItems = {}
    /\ selectedItems = <<>>
    /\ itemLoads = {}
    /\ uiDeliveryDate \in {""} \cup Dates
    /\ showConfirmDialog = FALSE
    /\ lastHandler = NoHandler
    /\ InitMore

NextDelivery ==
    \E ok \in BOOLEAN : handleScheduleDelivery(ok) /\ NotManager

SpecDelivery == InitDelivery /\ [][NextDelivery]_vars

\* ---------------------------------------------------------------- useAuth
Roles == {"admin", "comercial"}

\* setTimeout(() => fetchUserRole(userId), 0)
Defer(userId) == [roleFetches EXCEPT ![userId] = @ + 1]

\* The listener of onAuthStateChange on an event carrying session s (0: null):
\* setSession, setUser(session?.user ?? null), and either the deferred
\* fetchUserRole or setUser(null), setIsAdmin(false), setLoading(false).
onAuthStateChange(s) ==
    /\ authEvents < MaxAuthEvents
    /\ authEvents' = authEvents + 1
    /\ srvSession' = s
    /\ authUser' = [id |-> s, role |-> NULL]
    /\ IF s # 0
         THEN /\ roleFetches' = Defer(s)
              /\ UNCHANGED <<isAdmin, authLoading>>
         ELSE /\ isAdmin' = FALSE
              /\ authLoading' = FALSE
              /\ UNCHANGED roleFetches
    /\ lastAuth' = [step |-> "onAuthStateChange", session |-> s]
    /\ UNCHANGED <<comerciales, sessionCheck>>

\* supabase.auth.getSession().then(...): setSession, setUser, and either the
\* deferred fetchUserRole or setLoading(false).
getSession ==
    /\ sessionCheck
    /\ sessionCheck' = FALSE
    /\ authUser' = [id |-> srvSession, role |-> NULL]
    /\ IF srvSession # 0
         THEN /\ roleFetches' = Defer(srvSession)
              /\ UNCHANGED authLoading
         ELSE /\ authLoading' = FALSE
              /\ UNCHANGED roleFetches
    /\ lastAuth' = [step |-> "getSession", session |-> srvSession]
    /\ UNCHANGED <<comerciales, srvSession, isAdmin, authEvents>>

\* Mutant: fetchUserRole has no finally.
fetchUserRole_finally_missing(l) == l

\* finally { setLoading(false) } of fetchUserRole
fetchUserRole_finally(l) == FALSE

\* fetchUserRole(userId) when its query returns: with a row, the role goes
\* onto the user held (prevUser ? {...prevUser, role} : null) and isAdmin is
\* role === 'admin'; without one, or when the query fails, isAdmin is false;
\* finally setLoading(false).
fetchUserRole(userId, ok) ==
    LET comercial == IF ok THEN comerciales[userId] ELSE "none" IN
    /\ roleFetches[userId] > 0
    /\ roleFetches' = [roleFetches EXCEPT ![userId] = @ - 1]
    /\ IF comercial # "none"
         THEN /\ authUser' = IF authUser.id # 0
                               THEN [authUser EXCEPT !.role = comercial] ELSE authUser
              /\ isAdmin' = (comercial = "admin")
         ELSE /\ isAdmin' = FALSE
              /\ UNCHANGED authUser
    /\ authLoading' = fetchUserRole_finally(authLoading)
    /\ lastAuth' = [step |-> "fetchUserRole", session |-> userId]
    /\ UNCHANGED <<comerciales, srvSession, sessionCheck, authEvents>>

\* The comerciales rows and the session the browser holds when the hook mounts.
InitUseAuth ==
    /\ InitScreens
    /\ reportOrders = <<>>
    /\ reportData = NoReport
    /\ pedidos_seq = 0
    /\ today = 1
    /\ numeros = <<>>
    /\ InitManager
    /\ InitTrigger
    /\ InitHistory
    /\ InitLast
    /\ comerciales \in [Comerciales -> Roles \cup {"none"}]
    /\ srvSession \in {0} \cup Comerciales
    /\ sessionCheck = TRUE
    /\ roleFetches = [u \in Comerciales |-> 0]
    /\ authUser = NoUser
    /\ authLoading = TRUE
    /\ isAdmin = FALSE
    /\ authEvents = 0
    /\ lastAuth = NoAuth

NotAuth ==
    UNCHANGED <<orderVars, lastOp, catalogVars, queryVars, reportVars, numeroVars,
                managerVars, triggerVars, historyVars, lastVars>>

NextAuth ==
    \/ \E s \in {0} \cup Comerciales : onAuthStateChange(s) /\ NotAuth
    \/ getSession /\ NotAuth
    \/ \E u \in Comerciales, ok \in BOOLEAN : fetchUserRole(u, ok) /\ NotAuth

SpecAuth == InitUseAuth /\ [][NextAuth]_vars

\* Every request issued completes: getSession() resolves and every
\* fetchUserRole deferred gets its response.
SpecAuthFair ==
    /\ SpecAuth
    /\ WF_vars(getSession /\ NotAuth)
    /\ WF_vars(\E u \in Comerciales, ok \in BOOLEAN : fetchUserRole(u, ok) /\ NotAuth)

\* ------------------------------------------------- EnhancedClientManager
\* if (!isAdmin && user?.id) query = query.eq('comercial_id', user.id);
\* 0 stands for a query without the filter.
ClientFilter(admin, u) == IF ~admin /\ u.id # 0 THEN u.id ELSE 0

\* loadClients up to its await, with the isAdmin and user of the render it
\* was created in.
loadClients ==
    /\ clientQueries' = clientQueries \cup {ClientFilter(isAdmin, authUser)}
    /\ lastQuery' = [filter |-> ClientFilter(isAdmin, authUser), session |-> srvSession,
                     issued |-> TRUE]
    /\ UNCHANGED clients

\* The component mounts: its useAuth starts with user null and isAdmin false,
\* and the [isAdmin] effect runs loadClients() in that render.
mount ==
    /\ ~mounted
    /\ mounted' = TRUE
    /\ effectIsAdmin' = isAdmin
    /\ loadClients
    /\ UNCHANGED reloads

\* useEffect(() => { loadClients(); ... }, [isAdmin]) after a render in which
\* isAdmin differs from the one the effect ran with last.
isAdminEffect ==
    /\ mounted
    /\ isAdmin # effectIsAdmin
    /\ effectIsAdmin' = isAdmin
    /\ loadClients
    /\ UNCHANGED <<mounted, reloads>>

\* loadClients() at the end of a successful handleSubmit or handleDelete
reloadClients ==
    /\ mounted
    /\ reloads < MaxReloads
    /\ reloads' = reloads + 1
    /\ loadClients
    /\ UNCHANGED <<mounted, effectIsAdmin>>

\* The response to a loadClients query with filter f: setClients(rows), the
\* rows of clientes the filter keeps; without data, setClients([]).
OnLoadClients(f, ok) ==
    /\ f \in clientQueries
    /\ clientQueries' = clientQueries \ {f}
    /\ clients' = IF ok THEN {c \in Clientes : f = 0 \/ clientes[c].comercial_id = f}
                        ELSE {}
    /\ UNCHANGED <<mounted, effectIsAdmin, lastQuery, reloads>>

NotClients ==
    UNCHANGED <<orderVars, lastOp, catalogVars, queryVars, reportVars, numeroVars,
                managerVars, triggerVars, historyVars, authVars, searchVars, comercialVars>>

NextClients ==
    \/ mount /\ NotClients
    \/ isAdminEffect /\ NotClients
    \/ reloadClients /\ NotClients
    \/ \E f \in {0} \cup Comerciales, ok \in BOOLEAN : OnLoadClients(f, ok) /\ NotClients
    \/ \E s \in {0} \cup Comerciales : mounted /\ onAuthStateChange(s) /\ NotAuth
    \/ mounted /\ getSession /\ NotAuth
    \/ \E u \in Comerciales, ok \in BOOLEAN : mounted /\ fetchUserRole(u, ok) /\ NotAuth

SpecClients == InitUseAuth /\ [][NextClients]_vars

\* ------------------------------------------------------------ GlobalSearch
\* What the user can have in the search box, and the names of the clients.
Terms == {<<>>, <<1>>, <<1, 2>>, <<3, 4>>}
ClienteNombre == [c \in Clientes |-> IF c = 1 THEN <<1, 2>> ELSE <<3, 4>>]

\* nombre.ilike.%term%
Ilike(name, term) ==
    \E k \in 0..(Len(name) - Len(term)) : SubSeq(name, k + 1, k + Len(term)) = term

\* The clients a performSearch for term lists
Matches(term) == {c \in Clientes : Ilike(ClienteNombre[c], term)}

\* Mutant: the response of a search whose term is no longer the current one
\* is dropped.
setResults_current(term, data) == IF term = searchTerm THEN data ELSE results

\* setResults(filteredResults) at the end of performSearch
setResults(term, data) == data

\* onChange of the search box: the render's effect cleanup clears the pending
\* timeout and the effect sets a new one for the new term.
setSearchTerm(value) ==
    /\ typed < MaxTyped
    /\ value # searchTerm
    /\ typed' = typed + 1
    /\ searchTerm' = value
    /\ debounceTimer' = <<value>>
    /\ lastSearch' = [step |-> "setSearchTerm", term |-> value, applied |-> FALSE]
    /\ UNCHANGED <<searches, results>>

\* The debounce timeout fires after 300 ms: performSearch() up to its first
\* await for a term of 2 characters or more, setResults([]) otherwise.
debounce ==
    LET term == debounceTimer[1] IN
    /\ debounceTimer # <<>>
    /\ debounceTimer' = <<>>
    /\ IF Len(term) >= 2
         THEN /\ searches' = searches \cup {term}
              /\ results' = results
              /\ lastSearch' = [step |-> "performSearch", term |-> term, applied |-> FALSE]
         ELSE /\ searches' = searches
              /\ results' = {}
              /\ lastSearch' = [step |-> "clear", term |-> term, applied |-> FALSE]
    /\ UNCHANGED <<searchTerm, typed>>

\* The rest of performSearch for term once its queries returned: the results
\* are set; without a user it returns, and on an error it shows the toast.
OnSearchResponse(term, outcome) ==
    /\ term \in searches
    /\ searches' = searches \ {term}
    /\ results' = IF outcome = "ok" THEN setResults(term, Matches(term)) ELSE results
    /\ lastSearch' = [step |-> "response", term |-> term, applied |-> outcome = "ok"]
    /\ UNCHANGED <<searchTerm, debounceTimer, typed>>

NotSearch ==
    UNCHANGED <<orderVars, lastOp, catalogVars, queryVars, reportVars, numeroVars,
                managerVars, triggerVars, historyVars, authVars, clientVars, comercialVars>>

NextSearch ==
    \/ \E value \in Terms : setSearchTerm(value) /\ NotSearch
    \/ debounce /\ NotSearch
    \/ \E term \in Terms, outcome \in {"ok", "no_user", "error"} :
            OnSearchResponse(term, outcome) /\ NotSearch

SpecSearch == Init /\ [][NextSearch]_vars

\* ------------------------------------------------------- ComercialManager
\* "Nuevo Comercial" and the dialog's onOpenChange / Cancelar
setDialogOpen(open) ==
    /\ dialogOpen # open
    /\ dialogOpen' = open
    /\ UNCHANGED <<auth_users, submit, cmLoading, comercialesList, comercialesReq, cmToast,
                   comerciales>>

\* The response to loadComerciales: setComerciales(rows), [] without data;
\* finally setLoading(false).
OnLoadComerciales(ok) ==
    /\ comercialesReq > 0
    /\ comercialesReq' = comercialesReq - 1
    /\ comercialesList' = IF ok THEN {u \in Comerciales : comerciales[u] # "none"} ELSE {}
    /\ cmLoading' = FALSE
    /\ UNCHANGED <<auth_users, submit, dialogOpen, cmToast, comerciales>>

\* handleSubmit of the form for a new comercial (submit button
\* disabled={loading}) up to its first await: setLoading(true) and
\* supabase.auth.admin.createUser with the form's email; id stands for the
\* email and for the id of the user created for it.
handleSubmit(k, id, role) ==
    /\ submit[k].pc = "none"
    /\ \A j \in Calls : j < k => submit[j].pc # "none"
    /\ dialogOpen
    /\ ~cmLoading
    /\ cmLoading' = TRUE
    /\ submit' = [submit EXCEPT ![k] = [pc |-> "createUser", id |-> id, role |-> role,
                                        ok |-> FALSE]]
    /\ UNCHANGED <<auth_users, dialogOpen, comercialesList, comercialesReq, cmToast,
                   comerciales>>

\* Mutant: the catch removes the auth user created for the failed insert.
Catch_deleteUser(users, call) ==
    IF call.pc = "insert" THEN users \ {call.id} ELSE users

\* catch (error) { toast(...) }: the users supabase.auth holds afterwards
Catch(users, call) == users

\* The catch and the finally of call k: the error toast and setLoading(false)
Failed(k) ==
    /\ submit' = [submit EXCEPT ![k].pc = "done", ![k].ok = FALSE]
    /\ cmToast' = "error"
    /\ cmLoading' = FALSE
    /\ UNCHANGED <<dialogOpen, comercialesList, comercialesReq>>

\* createUser returns to call k: with an error (the request failed or the
\* email has a user) it is thrown; otherwise the user exists and the insert
\* of the comerciales row with its id is issued.
OnCreateUser(k, ok) ==
    /\ submit[k].pc = "createUser"
    /\ IF ok /\ submit[k].id \notin auth_users
         THEN /\ auth_users' = auth_users \cup {submit[k].id}
              /\ submit' = [submit EXCEPT ![k].pc = "insert"]
              /\ UNCHANGED <<cmLoading, dialogOpen, comercialesList, comercialesReq, cmToast>>
         ELSE /\ auth_users' = Catch(auth_users, submit[k])
              /\ Failed(k)
    /\ UNCHANGED comerciales

\* The insert returns to call k: with an error (the request failed or the row
\* exists) it is thrown; otherwise the success toast, setDialogOpen(false),
\* loadComerciales() and the finally.
OnInsert(k, ok) ==
    /\ submit[k].pc = "insert"
    /\ IF ok /\ comerciales[submit[k].id] = "none"
         THEN /\ comerciales' = [comerciales EXCEPT ![submit[k].id] = submit[k].role]
              /\ submit' = [submit EXCEPT ![k].pc = "done", ![k].ok = TRUE]
              /\ cmToast' = "success"
              /\ dialogOpen' = FALSE
              /\ comercialesReq' = comercialesReq + 1
              /\ cmLoading' = FALSE
              /\ UNCHANGED <<auth_users, comercialesList>>
         ELSE /\ comerciales' = comerciales
              /\ auth_users' = Catch(auth_users, submit[k])
              /\ Failed(k)

NotComercial ==
    UNCHANGED <<orderVars, lastOp, catalogVars, queryVars, reportVars, numeroVars,
                managerVars, triggerVars, historyVars, srvSession, sessionCheck, roleFetches,
                authUser, authLoading, isAdmin, authEvents, lastAuth, clientVars, searchVars>>

NextComercial ==
    \/ \E open \in BOOLEAN : setDialogOpen(open) /\ NotComercial
    \/ \E ok \in BOOLEAN : OnLoadComerciales(ok) /\ NotComercial
    \/ \E k \in Calls, id \in Comerciales, role \in Roles :
            handleSubmit(k, id, role) /\ NotComercial
    \/ \E k \in Calls, ok \in BOOLEAN : OnCreateUser(k, ok) /\ NotComercial
    \/ \E k \in Calls, ok \in BOOLEAN : OnInsert(k, ok) /\ NotComercial

SpecComercial == Init /\ [][NextComercial]_vars

\* ================================================================ claims
OrderOps == {"updateOrderStatus", "scheduleDelivery", "OrderTimeline.updateOrderStatus"}

\* C1: when an UPDATE changes an item's estado the trigger fires and sets the
\* parent order's estado from the items its statement sees: 'preparacion' if
\* every item of the order is 'confirmado', else 'confirmado_parcial' if some
\* item is 'confirmado' or 'no_confirmado', else unchanged; whatever the
\* order's previous estado was.
C1_TriggerRecomputes ==
    [][\A i \in Items :
        LET o == pedido_id(i)
            seen == [j \in Items |-> IF j = i THEN tx[i].new ELSE pedido_items[j].estado]
            expected ==
                IF \A j \in ItemsOf(o) : seen[j] = "confirmado" THEN "preparacion"
                ELSE IF \E j \in ItemsOf(o) : seen[j] \in {"confirmado", "no_confirmado"}
                  THEN "confirmado_parcial"
                ELSE "ELSE"
        IN  /\ (tx[i].phase = "sent" /\ tx'[i].phase = "snap") =>
                /\ tx'[i].fires = (pedido_items[i].estado # tx[i].new)
                /\ tx'[i].result = expected
            /\ (tx[i].phase = "snap" /\ tx'[i].phase = "none" /\ tx[i].fires) =>
                pedidos'[o].estado =
                    IF tx[i].result = "ELSE" THEN pedidos[o].estado ELSE tx[i].result
            /\ (tx[i].phase = "snap" /\ tx'[i].phase = "none" /\ ~tx[i].fires) =>
                pedidos' = pedidos
      ]_vars

\* C1 witness: an item update has overwritten a delivered order's estado.
C1_Witness ==
    /\ lastOp.op = "updateItemStatus"
    /\ lastOp.ret
    /\ lastOp.before.pedido = "entregado"
    /\ lastOp.after.pedido = "preparacion"

\* C2: every pedidos row holds one of the seven workflow states, and an order
\* write of any other value is rejected with an error and changes nothing.
C2_PedidoEstadoValid ==
    /\ \A o \in Orders : pedidos[o].estado \in PedidoEstados
    /\ (lastOp.op \in OrderOps /\ lastOp.arg \notin PedidoEstados) =>
            /\ lastOp.failed = "constraint"
            /\ lastOp.toast = <<"error">>
            /\ ~lastOp.changed
            /\ lastOp.after = lastOp.before

\* C2 witness: a write of 'pendiente' was rejected.
C2_Witness ==
    /\ lastOp.op = "updateOrderStatus"
    /\ lastOp.arg = "pendiente"
    /\ lastOp.failed = "constraint"

\* C3: every pedido_items row holds one of the six item states;
\* confirmPartialOrder writes only 'confirmado' or 'no_confirmado'; an
\* updateItemStatus with any other value is rejected and changes neither the
\* item nor its order.
C3_ItemEstadoValid ==
    /\ \A i \in Items : pedido_items[i].estado \in ItemEstados
    /\ \A i \in Items : tx[i].src \in {"cpo", "orphan"} =>
            tx[i].new \in {"confirmado", "no_confirmado"}
    /\ (lastOp.op = "updateItemStatus" /\ lastOp.arg \notin ItemEstados) =>
            /\ lastOp.failed = "constraint"
            /\ ~lastOp.ret
            /\ ~lastOp.changed
            /\ lastOp.after = lastOp.before

\* C3 witness: updateItemStatus with 'cancelado' was rejected.
C3_Witness ==
    /\ lastOp.op = "updateItemStatus"
    /\ lastOp.arg = "cancelado"
    /\ lastOp.failed = "constraint"
    /\ ~lastOp.ret

\* C4: updateOrderStatus accepts every target among the seven workflow states
\* from every current estado (the order's estado becomes the target), and the
\* database rejects exactly the targets outside the seven states.
C4_NoTransitionGuard ==
    lastOp.op = "updateOrderStatus" =>
        /\ (lastOp.failed = "constraint") = (lastOp.arg \notin PedidoEstados)
        /\ (lastOp.arg \in PedidoEstados /\ lastOp.failed # "env") =>
                /\ lastOp.ret
                /\ lastOp.toast = <<"success">>
                /\ lastOp.after.pedido = lastOp.arg

\* C4 witness: a delivered order was moved back to 'recibido'.
C4_Witness ==
    /\ lastOp.op = "updateOrderStatus"
    /\ lastOp.before.pedido = "entregado"
    /\ lastOp.arg = "recibido"
    /\ lastOp.ret
    /\ lastOp.after.pedido = "recibido"

\* Requests the application has issued and not yet seen return.
ItemsInFlight == {i \in Items : tx[i].phase \in {"sent", "snap"}}
InFlight == Cardinality(ItemsInFlight) + (IF cpo.pc = "order" THEN 1 ELSE 0)
CpoItemsInFlight == {i \in ItemsInFlight : tx[i].src = "cpo"}

\* C5 (as claimed): the status tables of the screens have exactly the seven
\* database states as keys, so every estado a pedidos row holds has an entry
\* in ORDER_STATUS_CONFIG and in ORDER_STATUSES, and every next status of
\* getNextStatus is a value the database accepts.
C5_TablesMatchDatabase ==
    /\ DOMAIN ORDER_STATUS_CONFIG = PedidoEstados
    /\ DOMAIN ORDER_STATUSES = PedidoEstados
    /\ \A o \in Orders : /\ pedidos[o].estado \in DOMAIN ORDER_STATUS_CONFIG
                         /\ pedidos[o].estado \in DOMAIN ORDER_STATUSES
    /\ \A st \in DOMAIN statusFlow : statusFlow[st] # NULL => CheckPedido(statusFlow[st])

C7_ConsistentAfterConfirm ==
    (/\ lastOp.op = "confirmPartialOrder"
     /\ lastOp.ret
     /\ lastOp.clean
     /\ lastOp.fired
     /\ DOMAIN lastOp.arg = ItemsOf(lastOp.target)) =>
        lastOp.after.pedido =
            IF \A i \in ItemsOf(lastOp.target) : lastOp.arg[i]
              THEN "preparacion" ELSE "confirmado_parcial"

\* C9: when an item UPDATE of confirmPartialOrder fails the call returns
\* false with an error toast and loading false, the step rolls nothing back,
\* and the order UPDATE (notas_operativas, items_confirmados) is never issued:
\* it is in flight only after every item UPDATE succeeded.
C9_NoRecovery ==
    [][/\ cpo.pc = "order" => cpo.done = DOMAIN cpo.sel
       /\ (cpo.pc = "items" /\ cpo'.pc = "idle") =>
            /\ lastOp'.op = "confirmPartialOrder"
            /\ lastOp'.stage = "item"
            /\ ~lastOp'.ret
            /\ lastOp'.toast = <<"error">>
            /\ loading' = FALSE
            /\ pedidos' = pedidos
            /\ pedido_items' = pedido_items
       /\ (cpo.pc = "items" /\ cpo'.pc = "items") =>
            /\ \A o \in Orders :
                /\ pedidos'[o].notas_operativas = pedidos[o].notas_operativas
                /\ pedidos'[o].items_confirmados = pedidos[o].items_confirmados
      ]_vars

\* C9 witness: the call failed after one of its item UPDATEs had been applied
\* and had changed the order's estado; the order carries no notes.
C9_Witness ==
    /\ lastOp.op = "confirmPartialOrder"
    /\ lastOp.stage = "item"
    /\ ~lastOp.ret
    /\ lastOp.fired
    /\ lastOp.after.pedido # lastOp.before.pedido
    /\ \E i \in DOMAIN lastOp.arg : pedido_items[i].estado \in {"confirmado", "no_confirmado"}
    /\ pedidos[lastOp.target].notas_operativas = NULL
    /\ pedidos[lastOp.target].items_confirmados = {}
    /\ ~loading

\* Notifications the handler that returned last showed.
Shown == {lastOp.toast[k] : k \in DOMAIN lastOp.toast}
HookOps == {"updateOrderStatus", "scheduleDelivery", "updateItemStatus", "confirmPartialOrder"}

\* C8 (as claimed): when a write a user action issued returned an error, the
\* action showed an error notification and no success notification, and an
\* operation of useOrderOperations returned false.
C8_FailedWriteSurfaced ==
    lastOp.failed # "none" =>
        /\ "error" \in Shown
        /\ "success" \notin Shown
        /\ lastOp.op \in HookOps => ~lastOp.ret

\* C10 (as claimed): the rows a screen holds for a signed-in commercial user
\* are orders of clients, and clients, whose comercial_id is that user's id.
C10_RowsOfOwnClients ==
    user # 0 =>
        /\ \A o \in rows.pedidos : comercial_id(o) = user
        /\ \A c \in rows.clientes : clientes[c].comercial_id = user

\* The items of a list of orders, as (order, item) positions, and what the
\* claim calls a product's sales: the sum of cantidad x precio_unitario over
\* all the items carrying its name.
ItemRefs(orders) ==
    UNION {{<<k, j>> : j \in DOMAIN orders[k].pedido_items} : k \in DOMAIN orders}

RECURSIVE SumAmounts(_, _)
SumAmounts(orders, refs) ==
    IF refs = {} THEN 0
    ELSE LET r == CHOOSE x \in refs : TRUE
             it == orders[r[1]].pedido_items[r[2]]
         IN  it.cantidad * it.precio_unitario + SumAmounts(orders, refs \ {r})

NamesIn(orders) ==
    {productName(orders[r[1]].pedido_items[r[2]]) : r \in ItemRefs(orders)}

SalesOf(orders, name) ==
    SumAmounts(orders, {r \in ItemRefs(orders) :
                            productName(orders[r[1]].pedido_items[r[2]]) = name})

RECURSIVE SumOfTotals(_, _)
SumOfTotals(orders, ks) ==
    IF ks = {} THEN 0
    ELSE LET k == CHOOSE x \in ks : TRUE
         IN  orders[k].total + SumOfTotals(orders, ks \ {k})

\* C11: processReportData returns totalSales = the sum of the order totals,
\* totalOrders = the number of orders, totalClients = the number of distinct
\* cliente_id, avgOrderValue = totalSales / totalOrders (0 without orders),
\* and topProducts with at most 10 distinct product names, each with the sum
\* of cantidad x precio_unitario of its items as sales, in non-increasing
\* order of sales, no product left out having higher sales than one included.
C11_ProcessReportData ==
    reportData.generated =>
        LET orders == reportOrders
            sm == reportData.summary
            top == reportData.topProducts
            included == {top[k].name : k \in DOMAIN top}
        IN  /\ sm.totalSales = SumOfTotals(orders, DOMAIN orders)
            /\ sm.totalOrders = Len(orders)
            /\ sm.totalClients = Cardinality({orders[k].cliente_id : k \in DOMAIN orders})
            /\ IF Len(orders) = 0
                 THEN sm.avgOrderValue.num = 0
                 ELSE sm.avgOrderValue.num * Len(orders) =
                        SumOfTotals(orders, DOMAIN orders) * sm.avgOrderValue.den
            /\ Len(top) <= 10
            /\ Cardinality(included) = Len(top)
            /\ included \subseteq NamesIn(orders)
            /\ \A k \in DOMAIN top : top[k].sales = SalesOf(orders, top[k].name)
            /\ \A k \in DOMAIN top : k > 1 => top[k - 1].sales >= top[k].sales
            /\ \A n \in NamesIn(orders) \ included :
                    \A k \in DOMAIN top : SalesOf(orders, n) <= top[k].sales

\* C11 witness: a report over two orders with more than 10 product names, one
\* of them sold in both orders, so that the slice leaves a product out and
\* the products listed differ in sales.
C11_Witness ==
    /\ reportData.generated
    /\ Len(reportOrders) = 2
    /\ Cardinality(NamesIn(reportOrders)) > 10
    /\ Len(reportData.topProducts) = 10
    /\ reportData.topProducts[1].sales > reportData.topProducts[10].sales
    /\ \E k \in DOMAIN reportData.topProducts :
            reportData.topProducts[k].quantity > MaxCantidad
    /\ reportData.summary.totalClients = 2

\* A sequence value padded with zeros to four characters, keeping every digit.
Padded(n) == [k \in 1..(IF Len(Digits(n)) < 4 THEN 4 - Len(Digits(n)) ELSE 0) |-> 0] \o Digits(n)

\* C12 (as claimed): every inserted order has the numero_pedido made of the
\* date and its sequence value padded to four characters, whatever the client
\* supplied, and no two orders have the same numero_pedido.
C12_NumeroUnique ==
    /\ \A k \in DOMAIN numeros :
            numeros[k].numero_pedido.number = Padded(numeros[k].nextval)
    /\ \A j \in DOMAIN numeros, k \in DOMAIN numeros :
            j # k => numeros[j].numero_pedido # numeros[k].numero_pedido

\* C13 (as claimed): every call of confirmPartialOrder made by
\* handleConfirmPartialOrder passes only item ids that belong to the order id
\* it passes (selectedOrder.id), whatever the order of the selections and of
\* the loadOrderItems responses.
C13_ItemsOfSelectedOrder ==
    (lastHandler.name = "handleConfirmPartialOrder" /\ lastHandler.requested)
        => lastHandler.items \subseteq ItemsOf(lastHandler.order)

\* C14: a statement on pedido_items that is an INSERT, a DELETE or an UPDATE
\* leaving estado as it was leaves estado and updated_at of every order
\* unchanged, and any statement on an item leaves every order other than the
\* item's own unchanged.
C14_TriggerFrame ==
    [][ /\ (lastStmt'.event \in {"INSERT", "DELETE"} \/ lastStmt'.old = lastStmt'.new)
            => (pedidos' = pedidos /\ updated_at' = updated_at)
        /\ \A o \in Orders \ {pedido_id(lastStmt'.item)} :
              pedidos'[o] = pedidos[o] /\ updated_at'[o] = updated_at[o] ]_vars

\* C14 witness: after the trigger wrote 'preparacion' and updated_at, a row
\* inserted as 'pendiente' for that order has left both as they were.
C14_Witness ==
    /\ lastStmt.event = "INSERT"
    /\ lastStmt.new = "pendiente"
    /\ pedidos[pedido_id(lastStmt.item)].estado = "preparacion"
    /\ updated_at[pedido_id(lastStmt.item)] \in 1..(clock - 1)

\* C15 (as claimed): an order that the item trigger set to 'preparacion',
\* with no direct write of its estado since, has all its items 'confirmado'.
C15_PreparacionAllConfirmed ==
    \A o \in Orders :
        (estado_by[o] = "trigger" /\ pedidos[o].estado = "preparacion")
            => \A i \in ItemsOf(o) : pedido_items[i].estado = "confirmado"

\* C16: a scheduleDelivery whose UPDATE is applied sets fecha_entrega_estimada
\* to the date and estado to 'enviado' on the order's row, whatever its estado
\* and its items were, and changes nothing else in pedidos or pedido_items; a
\* failed one writes nothing; and handleScheduleDelivery without a selected
\* order or with an empty date calls no operation of the hook.
C16_ScheduleDelivery ==
    [][ /\ (nops' = nops + 1 /\ lastOp'.op = "scheduleDelivery") =>
              /\ pedido_items' = pedido_items
              /\ pedidos' = IF lastOp'.ret
                              THEN [pedidos EXCEPT
                                      ![lastOp'.target].estado = "enviado",
                                      ![lastOp'.target].fecha_entrega_estimada = uiDeliveryDate]
                              ELSE pedidos
        /\ (selectedOrder.id = 0 \/ uiDeliveryDate = "") =>
              /\ UNCHANGED <<orderVars, lastOp>>
              /\ ~lastHandler'.requested ]_vars

\* C16 witness: a delivery was scheduled for an order that was 'cancelado',
\* with an item out of stock, and the order is 'enviado' with the date.
C16_Witness ==
    /\ lastOp.op = "scheduleDelivery"
    /\ lastOp.ret
    /\ lastOp.before.pedido = "cancelado"
    /\ pedidos[lastOp.target].estado = "enviado"
    /\ pedidos[lastOp.target].fecha_entrega_estimada # NULL
    /\ \E i \in ItemsOf(lastOp.target) : pedido_items[i].estado = "sin_stock"

\* C17 (as claimed): when a handler of OperationalOrderManager has returned
\* with success, selectedOrder.estado is the estado of that order's row.
C17_SelectedOrderMatches ==
    lastHandler.success => lastHandler.uiEstado = lastHandler.dbEstado

\* An operation of the hook is awaiting a response.
OperationInFlight ==
    cpo.pc # "idle" \/ \E i \in Items : tx[i].src = "uis" /\ tx[i].phase # "none"

\* C18 (as claimed): useOrderOperations.loading is true exactly while an
\* operation of the hook is in flight.
C18_LoadingTracksOperations == loading = OperationInFlight

\* C19 (as claimed): isAdmin is true only if a user is held and the
\* comerciales row of that user has role 'admin'.
C19_IsAdminOfUser ==
    isAdmin => (authUser.id # 0 /\ comerciales[authUser.id] = "admin")

\* C20: when every request completes, loading becomes false; it goes from
\* true to false only in a callback that found no session or in a
\* fetchUserRole that returned; and once false it stays false.
C20_LoadingSettles ==
    /\ <>(~authLoading)
    /\ [][ (authLoading /\ ~authLoading')
              => (lastAuth'.step = "fetchUserRole" \/ lastAuth'.session = 0) ]_vars
    /\ [][ ~authLoading => ~authLoading' ]_vars

\* C20 witness: a session existed, its user has no comerciales row, and
\* loading is false after the fetchUserRole for it returned.
C20_Witness ==
    /\ ~authLoading
    /\ ~sessionCheck
    /\ lastAuth.step = "fetchUserRole"
    /\ authUser.id = lastAuth.session
    /\ comerciales[authUser.id] = "none"

\* C21 (as claimed): a loadClients query issued under the session of a user
\* who is not an admin carries the filter comercial_id = that user's id, and
\* the clients held for a non-admin user are that user's clients.
C21_OwnClientsOnly ==
    /\ (lastQuery.issued /\ lastQuery.session # 0
            /\ comerciales[lastQuery.session] # "admin")
          => lastQuery.filter = lastQuery.session
    /\ (authUser.id # 0 /\ comerciales[authUser.id] # "admin")
          => \A c \in clients : clientes[c].comercial_id = authUser.id

\* C22: a change of searchTerm and the clearing of results leave every
\* pending search pending, and the response of a search that returns its
\* rows sets results to the matches of that search's term, whatever the
\* current term is.
C22_NoCancellation ==
    [][ /\ lastSearch'.step \in {"setSearchTerm", "clear"} => searches' = searches
        /\ (lastSearch'.step = "response" /\ lastSearch'.applied)
              => results' = Matches(lastSearch'.term) ]_vars

\* C22 witness: the box holds a term below 2 characters, results was cleared
\* for it, and the response of an earlier search has filled results since.
C22_Witness ==
    /\ Len(searchTerm) < 2
    /\ debounceTimer = <<>>
    /\ searches = {}
    /\ lastSearch.step = "response"
    /\ lastSearch.term # searchTerm
    /\ results = Matches(lastSearch.term)
    /\ results # {}

\* The step ends call k of handleSubmit from the stage pc with result ok.
Ends(k, pc, ok) == submit[k].pc = pc /\ submit'[k].pc = "done" /\ submit'[k].ok = ok

\* C23: the comerciales row is inserted only by a call whose auth user has
\* been created; a call whose createUser fails inserts no row; a call whose
\* insert fails shows the error toast, leaves the dialog as it is and leaves
\* the auth user it created in place without a row written; and every call
\* ends with loading false.
C23_HandleSubmit ==
    [][ \A k \in Calls :
          /\ (submit[k].pc = "createUser" /\ submit'[k].pc = "insert")
                => (comerciales' = comerciales /\ submit[k].id \in auth_users')
          /\ Ends(k, "createUser", FALSE)
                => (comerciales' = comerciales /\ auth_users' = auth_users
                    /\ cmToast' = "error" /\ ~cmLoading')
          /\ Ends(k, "insert", FALSE)
                => (comerciales' = comerciales /\ auth_users' = auth_users
                    /\ submit[k].id \in auth_users'
                    /\ cmToast' = "error" /\ dialogOpen' = dialogOpen /\ ~cmLoading')
          /\ Ends(k, "insert", TRUE)
                => (comerciales'[submit[k].id] = submit[k].role
                    /\ submit[k].id \in auth_users' /\ ~cmLoading')
          /\ (comerciales' # comerciales) => \E j \in Calls : Ends(j, "insert", TRUE) ]_vars

\* C23 witness: a call failed at the insert with the dialog open: its auth
\* user exists without a comerciales row, and loading is false.
C23_Witness ==
    \E k \in Calls :
        /\ submit[k].pc = "done" /\ ~submit[k].ok
        /\ submit[k].id \in auth_users
        /\ comerciales[submit[k].id] = "none"
        /\ cmToast = "error"
        /\ dialogOpen
        /\ ~cmLoading


====
